---- MODULE Spec2Model ----
(***************************************************************************)
(* The analysis client of the trading-portfolio frontend (services/api.js): *)
(*   - analyzePortfolioStream: the SSE consumer that reassembles the bytes  *)
(*     of a chunked HTTP response into events and folds them into           *)
(*     results/summary, calling onProgress/onResult;                        *)
(*   - analyzePortfolio: the single-shot call guarded by an abort timer.    *)
(* Text is modelled as a sequence of tokens; a token is a run of characters *)
(* that the code never looks into (the field prefix, one JSON document),    *)
(* except the line feed, which is one character.                            *)
(***************************************************************************)
EXTENDS Integers, Sequences, FiniteSets, TLC

(***************************************************************************)
(* Bounds of the model.                                                     *)
(***************************************************************************)
\* The Job Runner writes at most this many pieces (records or junk) to one stream.
MaxRecords == 3

(***************************************************************************)
(* The wire: bytes and characters.                                          *)
(***************************************************************************)
\* The line feed; two in a row delimit a record.
NL == "\n"
\* The field prefix "data: " at the start of the payload line.
D == "data: "
\* U+FFFD, what TextDecoder writes for a malformed byte sequence.
FFFD == "U+FFFD"
\* The JSON document of the second result holds one two-byte character; the
\* document is written as its part up to and including the character's first
\* byte (B1) and the part from the second byte on (B2).
B1 == "resultB-lead"
B2 == "resultB-rest"

\* The summary held before any `complete` event: `let summary = null`.
NullSummary == [isNull |-> TRUE]
\* The summary the Job Runner sends in its `complete` event.
TheSummary == [total_items |-> 2, succeeded |-> 1, failed |-> 1]
\* The items of the two result events: one analysed, one failed.
ItemA == [symbol |-> "AAA", status |-> "success"]
ItemB == [symbol |-> "BBB", status |-> "error"]
NoItem == [symbol |-> "", status |-> ""]

\* The events JSON.parse returns, one per well-formed JSON document of the
\* wire. Every event is written with the same fields (an unused one is 0, ""
\* or NoItem/NullSummary) so that any two can be compared.
Event(type, result, n, total, symbol, sum, err) ==
  [type |-> type, result |-> result, n |-> n, total |-> total,
   symbol |-> symbol, summary |-> sum, error |-> err]

\* The JSON documents of the wire, as characters (after decoding), and the
\* value JSON.parse gives for each.
JsonDocs == {"start", "progress", "resultA", "resultB", "complete", "error"}

JsonValue(doc) ==
  CASE doc = "start"    -> Event("start", NoItem, 0, 2, "", NullSummary, "")
    [] doc = "progress" -> Event("progress", NoItem, 1, 2, "AAA", NullSummary, "")
    [] doc = "resultA"  -> Event("result", ItemA, 1, 2, "", NullSummary, "")
    [] doc = "resultB"  -> Event("result", ItemB, 2, 2, "", NullSummary, "")
    [] doc = "complete" -> Event("complete", NoItem, 0, 0, "", TheSummary, "")
    [] doc = "error"    -> Event("error", NoItem, 0, 0, "", NullSummary, "boom")

\* The pieces the Job Runner may write, and the bytes of each. A record is
\* `data: <json>\n\n`. "badjson" is a delimited record whose payload is not
\* JSON, "nl" a stray line feed, "frag" a result record that is never
\* terminated.
RecordKinds == JsonDocs \cup {"badjson"}
PieceKinds == RecordKinds \cup {"nl", "frag"}

BytesOf(kind) ==
  CASE kind = "resultB" -> <<D, B1, B2, NL, NL>>
    [] kind = "badjson" -> <<D, "{not valid json", NL, NL>>
    [] kind = "nl"      -> <<NL>>
    [] kind = "frag"    -> <<D, "resultA">>
    [] OTHER            -> <<D, kind, NL, NL>>

RECURSIVE Flatten(_)
Flatten(kinds) ==
  IF kinds = <<>> THEN <<>> ELSE BytesOf(Head(kinds)) \o Flatten(Tail(kinds))

(***************************************************************************)
(* The Stream Decoder: the helpers of the read loop of                      *)
(* analyzePortfolioStream.                                                  *)
(***************************************************************************)
\* decoder.decode(value, { stream: true }): the characters of pend \o bytes,
\* where pend is the unfinished character the decoder kept from the chunk
\* before; an unfinished character at the end of the chunk is kept, not
\* written. Gives [text, pending].
RECURSIVE Decode(_, _)
Decode(pend, bytes) ==
  IF bytes = <<>> THEN [text |-> <<>>, pending |-> pend]
  ELSE LET h == Head(bytes) IN
    IF pend # <<>>
    THEN IF h = B2
         THEN LET r == Decode(<<>>, Tail(bytes))
              IN [text |-> <<"resultB">> \o r.text, pending |-> r.pending]
         ELSE LET r == Decode(<<>>, bytes)
              IN [text |-> <<FFFD>> \o r.text, pending |-> r.pending]
    ELSE IF h = B1 THEN Decode(<<B1>>, Tail(bytes))
    ELSE LET r == Decode(<<>>, Tail(bytes))
         IN [text |-> <<IF h = B2 THEN FFFD ELSE h>> \o r.text,
             pending |-> r.pending]

\* text.split(sep) for a separator of one or two line feeds: the pieces
\* between the occurrences of sep found from left to right, `cur` being the
\* piece under construction. Always gives at least one piece.
RECURSIVE SplitFrom(_, _, _)
SplitFrom(text, sep, cur) ==
  IF text = <<>> THEN <<cur>>
  ELSE IF Len(text) >= Len(sep) /\ SubSeq(text, 1, Len(sep)) = sep
  THEN <<cur>> \o SplitFrom(SubSeq(text, Len(sep) + 1, Len(text)), sep, <<>>)
  ELSE SplitFrom(Tail(text), sep, Append(cur, Head(text)))

\* buffer.split('\n\n')
Split(text) == SplitFrom(text, <<NL, NL>>, <<>>)

\* messages.pop() || '': the last piece of the split stays in the buffer.
PopLast(parts) == parts[Len(parts)]
\* What is left of `messages` after the pop.
Front(parts) == SubSeq(parts, 1, Len(parts) - 1)

\* !message.trim(): the message holds nothing but white space.
IsBlank(message) == \A i \in 1..Len(message) : message[i] = NL

\* message.match(/^data: (.+)$/m): the first line that starts with the field
\* prefix and goes on with at least one character; the capture is the rest of
\* that line. Gives [found, capture].
RECURSIVE FirstDataLine(_)
FirstDataLine(lines) ==
  IF lines = <<>> THEN [found |-> FALSE, capture |-> <<>>]
  ELSE LET l == Head(lines) IN
    IF Len(l) >= 2 /\ l[1] = D
    THEN [found |-> TRUE, capture |-> Tail(l)]
    ELSE FirstDataLine(Tail(lines))

DataMatch(message) == FirstDataLine(SplitFrom(message, <<NL>>, <<>>))

\* JSON.parse(dataMatch[1]): the value of the text when it is one JSON
\* document, a SyntaxError otherwise. Gives [ok, event].
JSONParse(capture) ==
  IF Len(capture) = 1 /\ capture[1] \in JsonDocs
  THEN [ok |-> TRUE, event |-> JsonValue(capture[1])]
  ELSE [ok |-> FALSE, event |-> Event("", NoItem, 0, 0, "", NullSummary, "")]

(***************************************************************************)
(* The Session Aggregator: the body of the for loop. A session is           *)
(* [results, summary, events, calls, caught]: the two locals of the call,   *)
(* the types of the events logged after JSON.parse, the callback            *)
(* invocations made so far, and what the inner catch has logged.            *)
(***************************************************************************)
OnProgress(current, total, symbol) ==
  [cb |-> "onProgress", item |-> NoItem, n |-> current, total |-> total,
   symbol |-> symbol]
OnResult(result, completed, total) ==
  [cb |-> "onResult", item |-> result, n |-> completed, total |-> total,
   symbol |-> ""]

\* What a case of the switch gives: the session after it, whether it threw,
\* and with what message.
Goes(s) == [s |-> s, thrown |-> FALSE, error |-> ""]
Throws(s, error) == [s |-> s, thrown |-> TRUE, error |-> error]

\* A start case that sets the session up anew.
CaseStartResets(s, event) ==
  Goes([s EXCEPT !.results = <<>>, !.summary = NullSummary])

\* case 'start': only logs.
CaseStart(s, event) == Goes(s)

\* A result case that puts the new item in front of the others.
CaseResultUnshift(s, event) ==
  Goes([s EXCEPT !.results = <<event.result>> \o @,
                 !.calls = Append(@, OnResult(event.result, event.n, event.total))])

\* A result case that takes a failed item for a failure of the call.
CaseResultItemErrorThrows(s, event) ==
  IF event.result.status = "error"
  THEN Throws(s, event.result.symbol)
  ELSE Goes([s EXCEPT !.results = Append(@, event.result),
                      !.calls = Append(@, OnResult(event.result, event.n, event.total))])

\* case 'result': results.push(event.result); onResult(event.result,
\* event.completed, event.total). The caller supplies the callback.
CaseResult(s, event) ==
  Goes([s EXCEPT !.results = Append(@, event.result),
                 !.calls = Append(@, OnResult(event.result, event.n, event.total))])

\* A progress case without its `break`: it falls through into case 'result'.
CaseProgressFallsThrough(s, event) ==
  CaseResult([s EXCEPT !.calls =
                Append(@, OnProgress(event.n, event.total, event.symbol))],
             event)

\* case 'progress': onProgress(event.current, event.total, event.symbol).
\* The caller supplies the callback.
CaseProgress(s, event) ==
  Goes([s EXCEPT !.calls =
          Append(@, OnProgress(event.n, event.total, event.symbol))])

\* case 'complete': summary = event.summary.
CaseComplete(s, event) == Goes([s EXCEPT !.summary = event.summary])

\* case 'error': throw new Error(event.error).
CaseError(s, event) == Throws(s, event.error)

\* switch (event.type), which has no default case.
SwitchEvent(s, event) ==
  CASE event.type = "start"    -> CaseStart(s, event)
    [] event.type = "progress" -> CaseProgress(s, event)
    [] event.type = "result"   -> CaseResult(s, event)
    [] event.type = "complete" -> CaseComplete(s, event)
    [] event.type = "error"    -> CaseError(s, event)
    [] OTHER                   -> Goes(s)

\* try { JSON.parse; switch } catch (parseError) { console.error(...) }: what
\* is thrown inside the try, by JSON.parse or by a case of the switch, is
\* logged and the loop goes on with the next message.
TryParseAndSwitch(s, capture) ==
  LET p == JSONParse(capture) IN
  IF ~p.ok THEN [s EXCEPT !.caught = Append(@, "SyntaxError")]
  ELSE LET logged == [s EXCEPT !.events = Append(@, p.event.type)]
           r == SwitchEvent(logged, p.event)
       IN IF r.thrown THEN [r.s EXCEPT !.caught = Append(@, r.error)] ELSE r.s

\* One turn of `for (const message of messages)`.
ProcessMessage(s, message) ==
  IF IsBlank(message) THEN s
  ELSE LET m == DataMatch(message) IN
       IF ~m.found THEN s ELSE TryParseAndSwitch(s, m.capture)

\* A loop that a logged failure ends: the messages after it are not processed.
RECURSIVE ProcessMessagesStopsAtFailure(_, _)
ProcessMessagesStopsAtFailure(s, messages) ==
  IF messages = <<>> THEN s
  ELSE LET t == ProcessMessage(s, Head(messages)) IN
       IF Len(t.caught) > Len(s.caught) THEN t
       ELSE ProcessMessagesStopsAtFailure(t, Tail(messages))

\* for (const message of messages) { ... }
RECURSIVE ProcessMessages(_, _)
ProcessMessages(s, messages) ==
  IF messages = <<>> THEN s
  ELSE ProcessMessages(ProcessMessage(s, Head(messages)), Tail(messages))

\* A turn of the while loop that empties the buffer instead of keeping the
\* incomplete message in it.
ProcessChunkDropsFragment(d, chunk) ==
  LET dec   == Decode(d.pending, chunk)
      parts == Split(d.buffer \o dec.text)
  IN [pending |-> dec.pending,
      buffer  |-> <<>>,
      s       |-> ProcessMessages(d.s, Front(parts))]

\* One turn of the while loop after a read that gave a chunk: decode, append
\* to the buffer, split, keep the last piece, process the others. `d` is
\* [pending, buffer, s]; gives the same.
ProcessChunk(d, chunk) ==
  LET dec   == Decode(d.pending, chunk)
      parts == Split(d.buffer \o dec.text)
  IN [pending |-> dec.pending,
      buffer  |-> PopLast(parts),
      s       |-> ProcessMessages(d.s, Front(parts))]

\* The locals at `let buffer = ''; const results = []; let summary = null`.
NewSession == [results |-> <<>>, summary |-> NullSummary, events |-> <<>>,
               calls |-> <<>>, caught |-> <<>>]
NewDecoder == [pending |-> <<>>, buffer |-> <<>>, s |-> NewSession]

\* { ...summary, results, success: true }: the fields of the summary (none
\* when it is null), with results and success written over them.
EmptyObject == [k \in {} |-> 0]
SpreadOf(sum) == IF sum = NullSummary THEN EmptyObject ELSE sum
ReturnValue(sum, res) == [results |-> res, success |-> TRUE] @@ SpreadOf(sum)

(***************************************************************************)
(* State.                                                                   *)
(***************************************************************************)
VARIABLES
  \* analyzePortfolioStream, one call:
  pc,         \* "fetching" | "reading" | "resolved" | "rejected"
  response,   \* [ok, status, body]: the HTTP response head, once received
  emitted,    \* the pieces the Job Runner has written to the response body
  sent,       \* the bytes of the response body written so far
  pos,        \* how many of them reader.read() has handed over
  transport,  \* "open" | "closed" (end of stream) | "failed" (severed)
  pending,    \* the TextDecoder's unfinished character
  buffer,     \* `buffer`
  results,    \* `results`
  summary,    \* `summary`
  events,     \* the types of the events logged ('SSE Event:'), in order
  calls,      \* the onProgress/onResult invocations made, in order
  caught,     \* what the inner catch has logged, in order
  value,      \* the value the call resolved with
  reason,     \* the error the call rejected with
  \* analyzePortfolio, one call:
  apc,        \* "idle" | "fetching" | "body" | "errbody" | "resolved" | "rejected"
  timer,      \* "none" | "armed" | "cleared" | "fired": the setTimeout of the call
  aborted,    \* controller.signal.aborted
  now,        \* the clock, in ticks of TickMs
  startedAt,  \* the tick at which the call started
  settledAt,  \* the tick at which it settled
  aresponse,  \* [ok, status, body]: the HTTP response head, once received
  avalue,     \* the value the call resolved with
  areason,    \* the error the call rejected with
  \* the company lists:
  cache,      \* `cache`, the module's object
  dateNow,    \* Date.now(), in milliseconds
  fac,        \* the fetchAllCompanies call: [pc, value, network, failedAll]
  nse,        \* the fetchAllNSECompanies call: [pc, value, network]
  modal,      \* CompanySelectionModal: [isOpen, loading, error, companyLists, awaiting]
  listsSince, \* Date.now() when the index lists now in the cache were written (0: none)
  afterClear, \* per function: clearCache has run and the function was not called since
  \* two analyzePortfolioStream calls at a time:
  frames,     \* per call: [pc, emitted, pos, transport, value]
  cells,      \* per activation of the function: its locals [pending, buffer, s]
  \* AuthProvider and the Kite session:
  auth,       \* the component's state: [isAuthenticated, loading, user, error]
  kite,       \* [session, checks, login, loginError, logout]: the backend's
              \* session and the requests of checkAuth, login and logout
  loggedOut,  \* a logout has completed and no login, and no status check
              \* started after it, has reported a session since
  \* searchCompanies, one call:
  search,     \* [pc, query, limit, lists, result]
  \* the portfolio (PortfolioContext), Home and the company picker:
  home,       \* [companies, submitted, loading, analysisResults, error, streamProgress]
  picker,     \* CompanyInput and its modal: [isOpen, activeTab, selected]
  hcall       \* the streaming call made by Home.handleSubmit: [inflight,
              \* total, completed, s, before, outcome]; outcome is how the
              \* last call ended: "none" | "resolved" | "rejected"

streamVars == <<pc, response, emitted, sent, pos, transport, pending, buffer,
                results, summary, events, calls, caught, value, reason>>
analyzeVars == <<apc, timer, aborted, now, startedAt, settledAt, aresponse,
                 avalue, areason>>
cacheVars == <<cache, dateNow, fac, nse, modal, listsSince, afterClear>>
concVars == <<frames, cells>>
authVars == <<auth, kite, loggedOut>>
searchVars == <<search>>
homeVars == <<home, picker, hcall>>
uiVars == <<authVars, searchVars, homeVars>>
vars == <<streamVars, analyzeVars, cacheVars, concVars, uiVars>>

\* What the steps of one part of the program leave alone.
apiVars == <<streamVars, analyzeVars, cacheVars, concVars>>
otherThanStream == <<analyzeVars, cacheVars, concVars, uiVars>>
otherThanAnalyze == <<streamVars, cacheVars, concVars, uiVars>>
otherThanCache == <<streamVars, analyzeVars, concVars, uiVars>>
otherThanConc == <<streamVars, analyzeVars, cacheVars, uiVars>>
otherThanAuth == <<apiVars, searchVars, homeVars>>
otherThanSearch == <<apiVars, authVars, homeVars>>
otherThanHome == <<apiVars, authVars, searchVars>>

\* An Error: its message is a text and, where the code writes one into it, a
\* number (the HTTP status, the minutes of the budget).
Msg(text, num) == [text |-> text, num |-> num]
NoReason == Msg("", 0)
NoValue == [unsettled |-> TRUE]
NoResponse == [ok |-> FALSE, status |-> 0, body |-> ""]

\* The error responses of the backend: the status, and what the body is: JSON
\* with a detail text, JSON without one, or not JSON at all (a proxy's page).
ErrorStatuses == {400, 500}
ErrorBodies == {"detail", "nodetail", "notjson"}
DetailText == "Invalid request"

(***************************************************************************)
(* analyzePortfolioStream.                                                  *)
(***************************************************************************)
StreamInit ==
  /\ pc = "fetching"
  /\ response = NoResponse
  /\ emitted = <<>>
  /\ sent = <<>>
  /\ pos = 0
  /\ transport = "open"
  /\ pending = NewDecoder.pending
  /\ buffer = NewDecoder.buffer
  /\ results = NewSession.results
  /\ summary = NewSession.summary
  /\ events = NewSession.events
  /\ calls = NewSession.calls
  /\ caught = NewSession.caught
  /\ value = NoValue
  /\ reason = NoReason

\* await fetch(...) resolves with response.ok: the locals of the read loop are
\* set up and the loop starts.
FetchOk ==
  /\ pc = "fetching"
  /\ response' = [ok |-> TRUE, status |-> 200, body |-> "stream"]
  /\ pc' = "reading"
  /\ pending' = NewDecoder.pending
  /\ buffer' = NewDecoder.buffer
  /\ results' = NewSession.results
  /\ summary' = NewSession.summary
  /\ UNCHANGED <<emitted, sent, pos, transport, events, calls, caught, value,
                 reason>>
  /\ UNCHANGED otherThanStream

\* response.json().catch(() => ({ detail: 'Unknown error' })) on an error
\* response: the detail of the body.
StreamErrorDetail(body) ==
  CASE body = "detail"   -> DetailText
    [] body = "nodetail" -> ""
    [] body = "notjson"  -> "Unknown error"

\* new Error(errorData.detail || `HTTP ${response.status}`)
StreamHttpError(status, body) ==
  IF StreamErrorDetail(body) # ""
  THEN Msg(StreamErrorDetail(body), 0)
  ELSE Msg("HTTP", status)

\* await fetch(...) resolves with !response.ok: the error is thrown to the
\* outer catch, which rethrows it.
FetchNotOk(status, body) ==
  /\ pc = "fetching"
  /\ response' = [ok |-> FALSE, status |-> status, body |-> body]
  /\ pc' = "rejected"
  /\ reason' = StreamHttpError(status, body)
  /\ UNCHANGED <<emitted, sent, pos, transport, pending, buffer, results,
                 summary, events, calls, caught, value>>
  /\ UNCHANGED otherThanStream

\* await fetch(...) rejects (no connection): rethrown by the outer catch.
FetchFails ==
  /\ pc = "fetching"
  /\ pc' = "rejected"
  /\ reason' = Msg("TypeError: Failed to fetch", 0)
  /\ UNCHANGED <<response, emitted, sent, pos, transport, pending, buffer,
                 results, summary, events, calls, caught, value>>
  /\ UNCHANGED otherThanStream

\* The Job Runner writes one more piece to the body of the open response.
RunnerEmits(kind) ==
  /\ pc = "reading"
  /\ transport = "open"
  /\ Len(emitted) < MaxRecords
  /\ emitted' = Append(emitted, kind)
  /\ sent' = sent \o BytesOf(kind)
  /\ UNCHANGED <<pc, response, pos, transport, pending, buffer, results,
                 summary, events, calls, caught, value, reason>>
  /\ UNCHANGED otherThanStream

\* The Job Runner ends the response body.
RunnerCloses ==
  /\ pc = "reading"
  /\ transport = "open"
  /\ transport' = "closed"
  /\ UNCHANGED <<pc, response, emitted, sent, pos, pending, buffer, results,
                 summary, events, calls, caught, value, reason>>
  /\ UNCHANGED otherThanStream

\* The connection is severed, by the network or by whoever holds it: the
\* body stream is errored and the bytes not yet read are lost.
ConnectionSevered ==
  /\ pc = "reading"
  /\ transport = "open"
  /\ transport' = "failed"
  /\ UNCHANGED <<pc, response, emitted, sent, pos, pending, buffer, results,
                 summary, events, calls, caught, value, reason>>
  /\ UNCHANGED otherThanStream

\* await reader.read() gives { done: false, value }, value being the next n
\* bytes of the body: one turn of the while loop.
ReadChunk(n) ==
  /\ pc = "reading"
  /\ transport # "failed"
  /\ n \in 1..(Len(sent) - pos)
  /\ \E d \in {ProcessChunk(
                [pending |-> pending, buffer |-> buffer,
                 s |-> [results |-> results, summary |-> summary,
                        events |-> events, calls |-> calls,
                        caught |-> caught]],
                SubSeq(sent, pos + 1, pos + n))} :
        /\ pending' = d.pending
        /\ buffer' = d.buffer
        /\ results' = d.s.results
        /\ summary' = d.s.summary
        /\ events' = d.s.events
        /\ calls' = d.s.calls
        /\ caught' = d.s.caught
  /\ pos' = pos + n
  /\ UNCHANGED <<pc, response, emitted, sent, transport, value, reason>>
  /\ UNCHANGED otherThanStream

\* An end of stream that hands what is left in the buffer to the loop body as
\* one more message before returning.
ReadDoneFlushesBuffer ==
  /\ pc = "reading"
  /\ transport = "closed"
  /\ pos = Len(sent)
  /\ LET s == ProcessMessage([results |-> results, summary |-> summary,
                              events |-> events, calls |-> calls,
                              caught |-> caught], buffer)
     IN /\ results' = s.results
        /\ summary' = s.summary
        /\ events' = s.events
        /\ calls' = s.calls
        /\ caught' = s.caught
        /\ value' = ReturnValue(s.summary, s.results)
  /\ pc' = "resolved"
  /\ buffer' = <<>>
  /\ UNCHANGED <<response, emitted, sent, pos, transport, pending, reason>>
  /\ UNCHANGED otherThanStream

\* await reader.read() gives { done: true }: the loop breaks and the call
\* returns.
ReadDone ==
  /\ pc = "reading"
  /\ transport = "closed"
  /\ pos = Len(sent)
  /\ pc' = "resolved"
  /\ value' = ReturnValue(summary, results)
  /\ UNCHANGED <<response, emitted, sent, pos, transport, pending, buffer,
                 results, summary, events, calls, caught, reason>>
  /\ UNCHANGED otherThanStream

\* A failed read that is swallowed: the call neither settles nor goes on.
ReadRejectsSwallowed ==
  /\ pc = "reading"
  /\ transport = "failed"
  /\ UNCHANGED vars

\* await reader.read() rejects: thrown to the outer catch, which rethrows it.
ReadRejects ==
  /\ pc = "reading"
  /\ transport = "failed"
  /\ pc' = "rejected"
  /\ reason' = Msg("TypeError: network error", 0)
  /\ UNCHANGED <<response, emitted, sent, pos, transport, pending, buffer,
                 results, summary, events, calls, caught, value>>
  /\ UNCHANGED otherThanStream

\* The steps of the call itself (the others are its environment's).
StreamStep ==
  \/ FetchOk
  \/ \E status \in ErrorStatuses, body \in ErrorBodies : FetchNotOk(status, body)
  \/ FetchFails
  \/ \E n \in 1..(MaxRecords * 5) : ReadChunk(n)
  \/ ReadDone
  \/ ReadRejects

StreamNext ==
  \/ StreamStep
  \/ \E kind \in PieceKinds : RunnerEmits(kind)
  \/ RunnerCloses
  \/ ConnectionSevered

(***************************************************************************)
(* analyzePortfolio: the single-shot call and its abort timer.              *)
(***************************************************************************)
\* The clock runs to this many ticks.
MaxClock == 4
\* One tick of the clock, in milliseconds (five minutes).
TickMs == 5 * 60 * 1000
\* const timeoutMs = 15 * 60 * 1000
timeoutMs == 15 * 60 * 1000
\* The minutes named in 'Analysis timeout: Request took longer than 15 minutes.'
TimeoutMessageMinutes == 15

AnalyzeInit ==
  /\ apc = "idle"
  /\ timer = "none"
  /\ aborted = FALSE
  /\ now = 0
  /\ startedAt = 0
  /\ settledAt = 0
  /\ aresponse = NoResponse
  /\ avalue = NoValue
  /\ areason = NoReason

\* The timer of the call is armed and its delay has passed.
TimerDue == timer = "armed" /\ (now - startedAt) * TickMs >= timeoutMs

\* Time passes; a timer that is due runs before the clock moves on.
Tick ==
  /\ now < MaxClock
  /\ ~TimerDue
  /\ now' = now + 1
  /\ UNCHANGED <<apc, timer, aborted, startedAt, settledAt, aresponse, avalue,
                 areason>>
  /\ UNCHANGED otherThanAnalyze

\* analyzePortfolio is called: setTimeout(() => controller.abort(), timeoutMs)
\* and fetch(..., { signal: controller.signal }).
AnalyzeCall ==
  /\ apc = "idle"
  /\ apc' = "fetching"
  /\ timer' = "armed"
  /\ startedAt' = now
  /\ UNCHANGED <<aborted, now, settledAt, aresponse, avalue, areason>>
  /\ UNCHANGED otherThanAnalyze

\* The timer's callback: () => controller.abort().
TimerFires ==
  /\ TimerDue
  /\ timer' = "fired"
  /\ aborted' = TRUE
  /\ UNCHANGED <<apc, now, startedAt, settledAt, aresponse, avalue, areason>>
  /\ UNCHANGED otherThanAnalyze

\* await fetch(...) resolves with response.ok; clearTimeout(timeoutId); the
\* call goes on to await response.json().
AnalyzeFetchOk(body) ==
  /\ apc = "fetching"
  /\ ~aborted
  /\ timer' = "cleared"
  /\ aresponse' = [ok |-> TRUE, status |-> 200, body |-> body]
  /\ apc' = "body"
  /\ UNCHANGED <<aborted, now, startedAt, settledAt, avalue, areason>>
  /\ UNCHANGED otherThanAnalyze

\* await fetch(...) resolves with !response.ok; clearTimeout(timeoutId); the
\* call goes on to await response.json() of the error body.
AnalyzeFetchNotOk(status, body) ==
  /\ apc = "fetching"
  /\ ~aborted
  /\ timer' = "cleared"
  /\ aresponse' = [ok |-> FALSE, status |-> status, body |-> body]
  /\ apc' = "errbody"
  /\ UNCHANGED <<aborted, now, startedAt, settledAt, avalue, areason>>
  /\ UNCHANGED otherThanAnalyze

\* await fetch(...) rejects for want of a connection: the catch rethrows it.
\* clearTimeout is not reached.
AnalyzeFetchFails ==
  /\ apc = "fetching"
  /\ ~aborted
  /\ apc' = "rejected"
  /\ areason' = Msg("TypeError: Failed to fetch", 0)
  /\ settledAt' = now
  /\ UNCHANGED <<timer, aborted, now, startedAt, aresponse, avalue>>
  /\ UNCHANGED otherThanAnalyze

\* await fetch(...) rejects with an AbortError after controller.abort(): the
\* catch throws the timeout error in its place.
AnalyzeFetchAborted ==
  /\ apc = "fetching"
  /\ aborted
  /\ apc' = "rejected"
  /\ areason' = Msg("Analysis timeout: Request took longer than N minutes",
                    TimeoutMessageMinutes)
  /\ settledAt' = now
  /\ UNCHANGED <<timer, aborted, now, startedAt, aresponse, avalue>>
  /\ UNCHANGED otherThanAnalyze

\* await response.json() of an ok response settles: the data is returned, or
\* the SyntaxError of a body that is not JSON is rethrown by the catch.
AnalyzeBodyRead ==
  /\ apc = "body"
  /\ IF aresponse.body = "data"
     THEN /\ apc' = "resolved"
          /\ avalue' = [results |-> <<ItemA, ItemB>>, success |-> TRUE] @@ TheSummary
          /\ UNCHANGED areason
     ELSE /\ apc' = "rejected"
          /\ areason' = Msg("SyntaxError", 0)
          /\ UNCHANGED avalue
  /\ settledAt' = now
  /\ UNCHANGED <<timer, aborted, now, startedAt, aresponse>>
  /\ UNCHANGED otherThanAnalyze

\* await response.json() of an ok response rejects, the connection being
\* lost while the body is read: rethrown by the catch.
AnalyzeBodyFails ==
  /\ apc = "body"
  /\ apc' = "rejected"
  /\ areason' = Msg("TypeError: network error", 0)
  /\ settledAt' = now
  /\ UNCHANGED <<timer, aborted, now, startedAt, aresponse, avalue>>
  /\ UNCHANGED otherThanAnalyze

\* response.statusText
StatusText(status) ==
  IF status = 400 THEN "Bad Request" ELSE "Internal Server Error"

\* response.json().catch(() => ({ detail: response.statusText }))
AnalyzeErrorDetail(status, body) ==
  CASE body = "detail"   -> DetailText
    [] body = "nodetail" -> ""
    [] body = "notjson"  -> StatusText(status)

\* new Error(errorData.detail || `HTTP ${response.status}: ${response.statusText}`)
AnalyzeHttpError(status, body) ==
  IF AnalyzeErrorDetail(status, body) # ""
  THEN Msg(AnalyzeErrorDetail(status, body), 0)
  ELSE Msg("HTTP", status)

\* await response.json() of an error response settles either way: the Error
\* made of it is thrown and the catch rethrows it.
AnalyzeErrBodyRead ==
  /\ apc = "errbody"
  /\ apc' = "rejected"
  /\ areason' = AnalyzeHttpError(aresponse.status, aresponse.body)
  /\ settledAt' = now
  /\ UNCHANGED <<timer, aborted, now, startedAt, aresponse, avalue>>
  /\ UNCHANGED otherThanAnalyze

AnalyzeNext ==
  \/ Tick
  \/ AnalyzeCall
  \/ TimerFires
  \/ \E body \in {"data", "notjson"} : AnalyzeFetchOk(body)
  \/ \E status \in ErrorStatuses, body \in ErrorBodies :
       AnalyzeFetchNotOk(status, body)
  \/ AnalyzeFetchFails
  \/ AnalyzeFetchAborted
  \/ AnalyzeBodyRead
  \/ AnalyzeBodyFails
  \/ AnalyzeErrBodyRead

(***************************************************************************)
(* The company lists: the module's cache, fetchAllCompanies,                *)
(* fetchAllNSECompanies and clearCache. At most one call of each function   *)
(* is in flight at a time.                                                  *)
(***************************************************************************)
\* Date.now() moves on at most this many times.
MaxCacheTicks == 3
\* One move of the clock, in milliseconds (half an hour).
ClockStepMs == 30 * 60 * 1000
\* Date.now() when the module is loaded: some time after the epoch.
LoadedAtMs == ClockStepMs
\* const CACHE_DURATION = 1000 * 60 * 60
CACHE_DURATION == 1000 * 60 * 60

\* A list of ticker symbols is written as the blocks it is made of: what an
\* endpoint returned ("nifty50", "nifty100", "nifty200", "nse") and the array
\* literals of the source ("fallback50", "additional100", "additional200"),
\* none of which is empty. A cache entry is a list or null.
Null == [isNull |-> TRUE, blocks |-> <<>>]
List(blocks) == [isNull |-> FALSE, blocks |-> blocks]

\* const cache = { nifty50: null, nifty100: null, nifty200: null, allNSE:
\* null, timestamp: null }; cache.top200, which the code reads and writes, is
\* undefined until written. A null timestamp is written 0.
EmptyCache ==
  [nifty50 |-> Null, nifty100 |-> Null, nifty200 |-> Null, top200 |-> Null,
   allNSE |-> Null, timestamp |-> 0]

\* A validity test with its comparison the wrong way round.
isCacheValidInverted(c, t) ==
  IF c.timestamp = 0 THEN FALSE ELSE t - c.timestamp > CACHE_DURATION

\* isCacheValid, for the cache c at Date.now() = t.
isCacheValid(c, t) ==
  IF c.timestamp = 0 THEN FALSE ELSE t - c.timestamp < CACHE_DURATION

\* A failed fetchNifty50 that returns an empty list.
FallbackNifty50Empty == <<>>

\* The array fetchNifty50 returns when the request fails.
FallbackNifty50 == <<"fallback50">>

\* fetchNifty50, fetchNifty100, fetchTop200: `up` tells, per endpoint, whether
\* a request to it succeeds (with a body that has a companies list) or fails
\* (no connection, a non-OK status or a body that is not JSON). A failed
\* fetchNifty100 awaits fetchNifty50, a failed fetchTop200 awaits
\* fetchNifty100, and appends its own array.
Endpoints == {"nifty50", "nifty100", "nifty200"}
fetchNifty50(up) ==
  IF up["nifty50"] THEN <<"nifty50">> ELSE FallbackNifty50
fetchNifty100(up) ==
  IF up["nifty100"] THEN <<"nifty100">>
  ELSE fetchNifty50(up) \o <<"additional100">>
fetchTop200(up) ==
  IF up["nifty200"] THEN <<"nifty200">>
  ELSE fetchNifty100(up) \o <<"additional200">>

\* The calls: where each is, the value it resolved with, whether it issued a
\* network request, and (fetchAllCompanies) whether every request it issued
\* failed.
NoLists == [nifty50 |-> Null, nifty100 |-> Null, top200 |-> Null]
FacIdle == [pc |-> "idle", value |-> NoLists, network |-> FALSE,
            failedAll |-> FALSE]
NseIdle == [pc |-> "idle", value |-> Null, network |-> FALSE]
FacInFlight == fac.pc \in {"all", "individual"}
NseInFlight == nse.pc = "fetching"

\* { nifty50: cache.nifty50, nifty100: cache.nifty100, top200: cache.top200 }
ListsOf(c) ==
  [nifty50 |-> c.nifty50, nifty100 |-> c.nifty100, top200 |-> c.top200]

\* useState of the modal.
ModalInit ==
  [isOpen |-> FALSE, loading |-> FALSE, error |-> FALSE, awaiting |-> FALSE,
   companyLists |-> [nifty50 |-> <<>>, nifty100 |-> <<>>, top200 |-> <<>>,
                     custom |-> <<>>]]

CacheInit ==
  /\ cache = EmptyCache
  /\ dateNow = LoadedAtMs
  /\ fac = FacIdle
  /\ nse = NseIdle
  /\ modal = ModalInit
  /\ listsSince = 0
  /\ afterClear = [fac |-> "no", nse |-> "no"]

\* Time passes.
CacheTick ==
  /\ dateNow < LoadedAtMs + MaxCacheTicks * ClockStepMs
  /\ dateNow' = dateNow + ClockStepMs
  /\ UNCHANGED <<cache, fac, nse, modal, listsSince, afterClear>>
  /\ UNCHANGED otherThanCache

\* fetchAllCompanies up to its first await: the cached lists are returned if
\* the cache is valid and holds the three, else /companies/all is requested.
FetchAllCompaniesBegins(c, t) ==
  IF isCacheValid(c, t) /\ ~c.nifty50.isNull /\ ~c.nifty100.isNull
     /\ ~c.top200.isNull
  THEN [pc |-> "resolved", value |-> ListsOf(c), network |-> FALSE,
        failedAll |-> FALSE]
  ELSE [pc |-> "all", value |-> NoLists, network |-> TRUE,
        failedAll |-> FALSE]

\* fetchAllNSECompanies up to its first await.
FetchAllNSEBegins(c, t) ==
  IF isCacheValid(c, t) /\ ~c.allNSE.isNull
  THEN [pc |-> "resolved", value |-> c.allNSE, network |-> FALSE]
  ELSE [pc |-> "fetching", value |-> Null, network |-> TRUE]

\* fetchAllCompanies is called (by searchCompanies, a test, the console).
fetchAllCompanies ==
  /\ ~FacInFlight
  /\ ~modal.awaiting
  /\ fac' = FetchAllCompaniesBegins(cache, dateNow)
  /\ afterClear' = [afterClear EXCEPT !.fac = "no"]
  /\ UNCHANGED <<cache, dateNow, nse, modal, listsSince>>
  /\ UNCHANGED otherThanCache

\* /companies/all answers with the three lists: they are cached with the time
\* and returned.
FetchAllOk ==
  /\ fac.pc = "all"
  /\ cache' = [cache EXCEPT !.nifty50 = List(<<"nifty50">>),
                            !.nifty100 = List(<<"nifty100">>),
                            !.top200 = List(<<"nifty200">>),
                            !.timestamp = dateNow]
  /\ fac' = [fac EXCEPT !.pc = "resolved", !.value = ListsOf(cache')]
  /\ listsSince' = dateNow
  /\ UNCHANGED <<dateNow, nse, modal, afterClear>>
  /\ UNCHANGED otherThanCache

\* /companies/all fails (no connection, a non-OK status, a body that is not
\* JSON): the three lists are fetched one by one.
FetchAllFails ==
  /\ fac.pc = "all"
  /\ fac' = [fac EXCEPT !.pc = "individual"]
  /\ UNCHANGED <<cache, dateNow, nse, modal, listsSince, afterClear>>
  /\ UNCHANGED otherThanCache

\* Promise.all([fetchNifty50(), fetchNifty100(), fetchTop200()]) settles: the
\* lists are cached with the time and returned. (The three functions touch
\* nothing shared, so their awaits are not told apart.)
FetchIndividually(up) ==
  /\ fac.pc = "individual"
  /\ cache' = [cache EXCEPT !.nifty50 = List(fetchNifty50(up)),
                            !.nifty100 = List(fetchNifty100(up)),
                            !.top200 = List(fetchTop200(up)),
                            !.timestamp = dateNow]
  /\ fac' = [fac EXCEPT !.pc = "resolved", !.value = ListsOf(cache'),
                        !.failedAll = \A e \in Endpoints : ~up[e]]
  /\ listsSince' = dateNow
  /\ UNCHANGED <<dateNow, nse, modal, afterClear>>
  /\ UNCHANGED otherThanCache

\* fetchAllNSECompanies is called.
fetchAllNSECompanies ==
  /\ ~NseInFlight
  /\ ~modal.awaiting
  /\ nse' = FetchAllNSEBegins(cache, dateNow)
  /\ afterClear' = [afterClear EXCEPT !.nse = "no"]
  /\ UNCHANGED <<cache, dateNow, fac, modal, listsSince>>
  /\ UNCHANGED otherThanCache

\* /companies/nse/all answers: the list is cached with the time and returned.
FetchNSEOk ==
  /\ nse.pc = "fetching"
  /\ cache' = [cache EXCEPT !.allNSE = List(<<"nse">>), !.timestamp = dateNow]
  /\ nse' = [nse EXCEPT !.pc = "resolved", !.value = cache'.allNSE]
  /\ UNCHANGED <<dateNow, fac, modal, listsSince, afterClear>>
  /\ UNCHANGED otherThanCache

\* /companies/nse/all fails: the error is logged and rethrown.
FetchNSEFails ==
  /\ nse.pc = "fetching"
  /\ nse' = [nse EXCEPT !.pc = "rejected"]
  /\ UNCHANGED <<cache, dateNow, fac, modal, listsSince, afterClear>>
  /\ UNCHANGED otherThanCache

\* A clearCache that resets the key of the cache's literal, nifty200, in
\* place of top200.
ClearedNifty200(c) ==
  [c EXCEPT !.nifty50 = Null, !.nifty100 = Null, !.nifty200 = Null,
            !.allNSE = Null, !.timestamp = 0]

\* What clearCache makes of the cache.
Cleared(c) ==
  [c EXCEPT !.nifty50 = Null, !.nifty100 = Null, !.top200 = Null,
            !.allNSE = Null, !.timestamp = 0]

clearCache ==
  /\ cache' = Cleared(cache)
  /\ listsSince' = 0
  /\ afterClear' = [fac |-> IF FacInFlight THEN "racing" ELSE "quiet",
                    nse |-> IF NseInFlight THEN "racing" ELSE "quiet"]
  /\ UNCHANGED <<dateNow, fac, nse, modal>>
  /\ UNCHANGED otherThanCache

CacheNext ==
  \/ CacheTick
  \/ fetchAllCompanies
  \/ FetchAllOk
  \/ FetchAllFails
  \/ \E up \in [Endpoints -> BOOLEAN] : FetchIndividually(up)
  \/ fetchAllNSECompanies
  \/ FetchNSEOk
  \/ FetchNSEFails
  \/ clearCache

(***************************************************************************)
(* CompanySelectionModal: loadCompanyData.                                  *)
(***************************************************************************)
\* isOpen becomes true; the effect runs loadCompanyData if no list was loaded
\* yet: setLoading(true), setError(null), and both functions are called.
ModalOpens ==
  /\ ~modal.isOpen
  /\ ~modal.awaiting /\ ~FacInFlight /\ ~NseInFlight
  /\ IF modal.companyLists.nifty50 = <<>>
     THEN /\ modal' = [modal EXCEPT !.isOpen = TRUE, !.loading = TRUE,
                                    !.error = FALSE, !.awaiting = TRUE]
          /\ fac' = FetchAllCompaniesBegins(cache, dateNow)
          /\ nse' = FetchAllNSEBegins(cache, dateNow)
          /\ afterClear' = [fac |-> "no", nse |-> "no"]
     ELSE /\ modal' = [modal EXCEPT !.isOpen = TRUE]
          /\ UNCHANGED <<fac, nse, afterClear>>
  /\ UNCHANGED <<cache, dateNow, listsSince>>
  /\ UNCHANGED otherThanCache

\* The parent closes the modal.
ModalCloses ==
  /\ modal.isOpen
  /\ modal' = [modal EXCEPT !.isOpen = FALSE]
  /\ UNCHANGED <<cache, dateNow, fac, nse, listsSince, afterClear>>
  /\ UNCHANGED otherThanCache

\* Promise.all resolves, both calls having resolved: setCompanyLists, and in
\* the finally setLoading(false).
ModalLoaded ==
  /\ modal.awaiting
  /\ fac.pc = "resolved" /\ nse.pc = "resolved"
  /\ modal' = [modal EXCEPT
       !.companyLists = [nifty50 |-> fac.value.nifty50.blocks,
                         nifty100 |-> fac.value.nifty100.blocks,
                         top200 |-> fac.value.top200.blocks,
                         custom |-> nse.value.blocks],
       !.loading = FALSE, !.awaiting = FALSE]
  /\ UNCHANGED <<cache, dateNow, fac, nse, listsSince, afterClear>>
  /\ UNCHANGED otherThanCache

\* Promise.all rejects as soon as fetchAllNSECompanies has: setError, and in
\* the finally setLoading(false). The lists stay as they were.
ModalLoadFails ==
  /\ modal.awaiting
  /\ nse.pc = "rejected"
  /\ modal' = [modal EXCEPT !.error = TRUE, !.loading = FALSE,
                            !.awaiting = FALSE]
  /\ UNCHANGED <<cache, dateNow, fac, nse, listsSince, afterClear>>
  /\ UNCHANGED otherThanCache

ModalNext ==
  \/ ModalOpens
  \/ ModalCloses
  \/ ModalLoaded
  \/ ModalLoadFails
  \/ FetchAllOk
  \/ FetchAllFails
  \/ \E up \in [Endpoints -> BOOLEAN] : FetchIndividually(up)
  \/ FetchNSEOk
  \/ FetchNSEFails
  \/ CacheTick
  \/ clearCache

(***************************************************************************)
(* Calls in flight at the same time: two analyzePortfolioStream calls, or   *)
(* one and an analyzePortfolio call. Each call of analyzePortfolioStream    *)
(* has its own response and its own activation of the function.             *)
(***************************************************************************)
\* The Job Runner writes at most this many records to each of the streams.
MaxConcRecords == 2
\* The two streaming calls, and the records the Job Runner writes to them.
Calls == {1, 2}
ConcKinds == {"resultB", "complete"}

\* reader, decoder, buffer, results and summary declared in a module-level
\* scope: every call uses the same ones.
SharedLocals(c) == 1

\* Where the reader, decoder, buffer, results and summary of call c live: they
\* are declared with const and let in the function's body, so each call has
\* those of its own activation.
OwnLocals(c) == c

NewFrame == [pc |-> "fetching", emitted |-> <<>>, pos |-> 0,
             transport |-> "open", value |-> NoValue]

ConcInit ==
  /\ frames = [c \in Calls |-> NewFrame]
  /\ cells = [c \in Calls |-> NewDecoder]

\* Call c: await fetch(...) resolves with response.ok and the locals of the
\* read loop are set up. The second streaming call and the non-streaming call
\* stand for the same second caller: only one of them is made.
ConcFetchOk(c) ==
  /\ frames[c].pc = "fetching"
  /\ c = 2 => apc = "idle"
  /\ frames' = [frames EXCEPT ![c].pc = "reading"]
  /\ cells' = [cells EXCEPT ![OwnLocals(c)] = NewDecoder]
  /\ UNCHANGED otherThanConc

\* The Job Runner writes one more record to the response of call c.
ConcRunnerEmits(c, kind) ==
  /\ frames[c].pc = "reading"
  /\ frames[c].transport = "open"
  /\ Len(frames[c].emitted) < MaxConcRecords
  /\ frames' = [frames EXCEPT ![c].emitted = Append(@, kind)]
  /\ UNCHANGED <<cells, otherThanConc>>

\* The Job Runner ends the response of call c.
ConcRunnerCloses(c) ==
  /\ frames[c].pc = "reading"
  /\ frames[c].transport = "open"
  /\ frames' = [frames EXCEPT ![c].transport = "closed"]
  /\ UNCHANGED <<cells, otherThanConc>>

\* Call c: await reader.read() gives the next n bytes of its response; one
\* turn of its while loop.
ConcReadChunk(c, n) ==
  /\ frames[c].pc = "reading"
  /\ n \in 1..(Len(Flatten(frames[c].emitted)) - frames[c].pos)
  /\ cells' = [cells EXCEPT ![OwnLocals(c)] =
       ProcessChunk(@, SubSeq(Flatten(frames[c].emitted),
                              frames[c].pos + 1, frames[c].pos + n))]
  /\ frames' = [frames EXCEPT ![c].pos = @ + n]
  /\ UNCHANGED otherThanConc

\* Call c: await reader.read() gives { done: true }; the call returns.
ConcReadDone(c) ==
  /\ frames[c].pc = "reading"
  /\ frames[c].transport = "closed"
  /\ frames[c].pos = Len(Flatten(frames[c].emitted))
  /\ frames' = [frames EXCEPT
       ![c].pc = "resolved",
       ![c].value = ReturnValue(cells[OwnLocals(c)].s.summary,
                                cells[OwnLocals(c)].s.results)]
  /\ UNCHANGED <<cells, otherThanConc>>

\* The non-streaming call is made in place of the second streaming call.
ConcAnalyzeCall == frames[2].pc = "fetching" /\ AnalyzeCall

ConcNext ==
  \/ \E c \in Calls : ConcFetchOk(c)
  \/ \E c \in Calls, kind \in ConcKinds : ConcRunnerEmits(c, kind)
  \/ \E c \in Calls : ConcRunnerCloses(c)
  \/ \E c \in Calls, n \in 1..(MaxConcRecords * 5 + 5) : ConcReadChunk(c, n)
  \/ \E c \in Calls : ConcReadDone(c)
  \/ ConcAnalyzeCall
  \/ \E body \in {"data", "notjson"} : AnalyzeFetchOk(body)
  \/ AnalyzeFetchFails
  \/ AnalyzeBodyRead
  \/ AnalyzeBodyFails

(***************************************************************************)
(* AuthProvider: the Kite session as the pages see it, kept by checkAuth    *)
(* (called on mount and every 30 seconds), login and logout.                *)
(***************************************************************************)
\* At most this many checkAuth requests are in flight at a time.
MaxChecks == 2
Checks == 1..MaxChecks

\* useState(null) of user, and { id: data.user_id, expiresAt: data.expires_at }
NullUser == [isNull |-> TRUE, id |-> "", expiresAt |-> ""]
UserOf(data) == [isNull |-> FALSE, id |-> data.user_id, expiresAt |-> data.expires_at]

\* useState(null) of error, and what setError(err.message) leaves
NoError == [isNull |-> TRUE, message |-> ""]
ErrorOf(message) == [isNull |-> FALSE, message |-> message]

\* The body of GET /auth/kite/status for a session that is there or not.
StatusOf(session) ==
  IF session
  THEN [is_authenticated |-> TRUE, user_id |-> "ABC123", expires_at |-> "2024-01-01T12:00:00"]
  ELSE [is_authenticated |-> FALSE, user_id |-> "", expires_at |-> ""]

\* A checkAuth request: where it is, the status the backend answered with,
\* whether it was in flight when logout was called (early), whether its
\* answer is older than that logout (stale), and whether login made it.
FreeCheck == [stage |-> "free", data |-> StatusOf(FALSE), early |-> FALSE,
              stale |-> FALSE, forLogin |-> FALSE]

\* setIsAuthenticated(false); setUser(null), without the second setter.
SignedOutKeepsUser(a) == [a EXCEPT !.isAuthenticated = FALSE]

\* setIsAuthenticated(false); setUser(null)
SignedOut(a) == [a EXCEPT !.isAuthenticated = FALSE, !.user = NullUser]

\* setIsAuthenticated(true); setUser({ id: ..., expiresAt: ... })
SignedIn(a, data) == [a EXCEPT !.isAuthenticated = TRUE, !.user = UserOf(data)]

AuthInit ==
  /\ auth = [isAuthenticated |-> FALSE, loading |-> TRUE, user |-> NullUser,
             error |-> NoError]
  /\ kite = [session |-> FALSE, checks |-> [i \in Checks |-> FreeCheck],
             login |-> "idle", loginError |-> "", logout |-> "idle"]
  /\ loggedOut = FALSE

\* checkAuth() is called by the effect, on mount or by the interval's
\* callback: the status request is sent.
CheckAuthCall(i) ==
  /\ kite.checks[i].stage = "free"
  /\ kite' = [kite EXCEPT !.checks[i] = [FreeCheck EXCEPT !.stage = "sent"]]
  /\ UNCHANGED <<auth, loggedOut>>
  /\ UNCHANGED otherThanAuth

\* The backend answers a status request with the session it has then.
KiteStatus(i) ==
  /\ kite.checks[i].stage = "sent"
  /\ kite' = [kite EXCEPT !.checks[i].stage = "answered",
                          !.checks[i].data = StatusOf(kite.session)]
  /\ UNCHANGED <<auth, loggedOut>>
  /\ UNCHANGED otherThanAuth

\* checkAuth goes on after its awaits with the status: the setters of either
\* branch, then setLoading(false). A login that awaited it returns, and its
\* finally sets loading to false as well.
CheckAuthDone(i) ==
  /\ kite.checks[i].stage = "answered"
  /\ LET data == kite.checks[i].data
     IN /\ auth' = [(IF data.is_authenticated
                     THEN SignedIn(auth, data)
                     ELSE SignedOut(auth)) EXCEPT !.loading = FALSE]
        /\ loggedOut' = (loggedOut /\ ~(data.is_authenticated /\ ~kite.checks[i].stale))
  /\ kite' = [kite EXCEPT !.checks[i] = FreeCheck,
                          !.login = IF kite.checks[i].forLogin THEN "idle" ELSE @]
  /\ UNCHANGED otherThanAuth

\* The status request, or the reading of its body, fails: the catch of
\* checkAuth, then setLoading(false).
CheckAuthFails(i) ==
  /\ kite.checks[i].stage \in {"sent", "answered"}
  /\ auth' = [SignedOut(auth) EXCEPT !.loading = FALSE]
  /\ kite' = [kite EXCEPT !.checks[i] = FreeCheck,
                          !.login = IF kite.checks[i].forLogin THEN "idle" ELSE @]
  /\ UNCHANGED loggedOut
  /\ UNCHANGED otherThanAuth

\* login(token) is called: setLoading(true); setError(null); the save-token
\* request is sent.
LoginCall ==
  /\ kite.login = "idle"
  /\ auth' = [auth EXCEPT !.loading = TRUE, !.error = NoError]
  /\ kite' = [kite EXCEPT !.login = "sent"]
  /\ UNCHANGED loggedOut
  /\ UNCHANGED otherThanAuth

\* The backend takes the token and has a session, or refuses it with an error
\* text, which may be missing.
KiteSaveToken(ok, error) ==
  /\ kite.login = "sent"
  /\ kite' = IF ok
             THEN [kite EXCEPT !.login = "saved", !.session = TRUE]
             ELSE [kite EXCEPT !.login = "refused", !.loginError = error]
  /\ UNCHANGED <<auth, loggedOut>>
  /\ UNCHANGED otherThanAuth

\* data.error || 'Login failed'
LoginErrorMessage(error) == IF error # "" THEN error ELSE "Login failed"

\* login goes on with data.success: await checkAuth().
LoginSaved(i) ==
  /\ kite.login = "saved"
  /\ kite.checks[i].stage = "free"
  /\ kite' = [kite EXCEPT !.login = "checking",
                          !.checks[i] = [FreeCheck EXCEPT !.stage = "sent",
                                                          !.forLogin = TRUE]]
  /\ UNCHANGED <<auth, loggedOut>>
  /\ UNCHANGED otherThanAuth

\* login goes on without data.success: the Error thrown is caught,
\* setError(err.message), and the finally sets loading to false.
LoginRefused ==
  /\ kite.login = "refused"
  /\ auth' = [auth EXCEPT !.error = ErrorOf(LoginErrorMessage(kite.loginError)),
                          !.loading = FALSE]
  /\ kite' = [kite EXCEPT !.login = "idle", !.loginError = ""]
  /\ UNCHANGED loggedOut
  /\ UNCHANGED otherThanAuth

\* The save-token request fails: setError(err.message), and the finally.
LoginFails ==
  /\ kite.login \in {"sent", "saved", "refused"}
  /\ auth' = [auth EXCEPT !.error = ErrorOf("Failed to fetch"), !.loading = FALSE]
  /\ kite' = [kite EXCEPT !.login = "idle", !.loginError = ""]
  /\ UNCHANGED loggedOut
  /\ UNCHANGED otherThanAuth

\* logout() is called: the logout request is sent. The checkAuth requests of
\* the effect that are in flight now started before the logout.
LogoutCall ==
  /\ kite.logout = "idle"
  /\ kite' = [kite EXCEPT
       !.logout = "sent",
       !.checks = [i \in Checks |->
          IF kite.checks[i].stage # "free" /\ ~kite.checks[i].forLogin
          THEN [kite.checks[i] EXCEPT !.early = TRUE]
          ELSE kite.checks[i]]]
  /\ UNCHANGED <<auth, loggedOut>>
  /\ UNCHANGED otherThanAuth

\* POST /auth/kite/logout: the backend clears the session. The status
\* requests that started before the logout and that the backend has answered
\* already tell of the time before it.
KiteLogout ==
  /\ kite.logout = "sent"
  /\ kite' = [kite EXCEPT
       !.logout = "cleared",
       !.session = FALSE,
       !.checks = [i \in Checks |->
          IF kite.checks[i].stage = "answered" /\ kite.checks[i].early
          THEN [kite.checks[i] EXCEPT !.stale = TRUE]
          ELSE kite.checks[i]]]
  /\ UNCHANGED <<auth, loggedOut>>
  /\ UNCHANGED otherThanAuth

\* logout goes on after its await: setIsAuthenticated(false); setUser(null).
LogoutDone ==
  /\ kite.logout = "cleared"
  /\ auth' = SignedOut(auth)
  /\ kite' = [kite EXCEPT !.logout = "idle"]
  /\ loggedOut' = TRUE
  /\ UNCHANGED otherThanAuth

\* The logout request fails: the catch logs it and nothing else.
LogoutFails ==
  /\ kite.logout \in {"sent", "cleared"}
  /\ kite' = [kite EXCEPT !.logout = "idle"]
  /\ UNCHANGED <<auth, loggedOut>>
  /\ UNCHANGED otherThanAuth

\* GET /auth/kite/callback: the OAuth flow ends and the backend has a session.
KiteCallback ==
  /\ ~kite.session
  /\ kite' = [kite EXCEPT !.session = TRUE]
  /\ UNCHANGED <<auth, loggedOut>>
  /\ UNCHANGED otherThanAuth

\* The session expires at the backend.
KiteSessionExpires ==
  /\ kite.session
  /\ kite' = [kite EXCEPT !.session = FALSE]
  /\ UNCHANGED <<auth, loggedOut>>
  /\ UNCHANGED otherThanAuth

AuthNext ==
  \/ \E i \in Checks : CheckAuthCall(i)
  \/ \E i \in Checks : KiteStatus(i)
  \/ \E i \in Checks : CheckAuthDone(i)
  \/ \E i \in Checks : CheckAuthFails(i)
  \/ LoginCall
  \/ \E ok \in BOOLEAN, error \in {"", "Invalid access token"} :
       KiteSaveToken(ok, error)
  \/ \E i \in Checks : LoginSaved(i)
  \/ LoginRefused
  \/ LoginFails
  \/ LogoutCall
  \/ KiteLogout
  \/ LogoutDone
  \/ LogoutFails
  \/ KiteCallback
  \/ KiteSessionExpires

(***************************************************************************)
(* searchCompanies: the search in the lists of fetchAllCompanies that       *)
(* stands in for the backend's search when its request has failed. A name   *)
(* is the sequence of its characters.                                       *)
(***************************************************************************)
\* The largest `limit` a call is made with.
MaxLimit == 3

\* String.prototype.toLowerCase, on the characters of the names and queries.
LowerChar(ch) ==
  CASE ch = "A" -> "a"
    [] ch = "B" -> "b"
    [] OTHER    -> ch
toLowerCase(str) == [i \in DOMAIN str |-> LowerChar(str[i])]

\* String.prototype.includes
includes(str, part) ==
  \E at \in 0..(Len(str) - Len(part)) :
    SubSeq(str, at + 1, at + Len(part)) = part

\* [...new Set(list)]: the values of the list, each once, in the order of
\* their first occurrence.
RECURSIVE SetSpread(_)
SetSpread(list) ==
  IF list = <<>> THEN <<>>
  ELSE LET front == SetSpread(Front(list))
           last == list[Len(list)]
       IN IF \E i \in DOMAIN front : front[i] = last
          THEN front
          ELSE Append(front, last)

\* list.slice(0, limit), for a limit that is not negative
Slice(list, limit) ==
  SubSeq(list, 1, IF limit < Len(list) THEN limit ELSE Len(list))

\* The filter's test, without the toLowerCase() of the company.
MatchesAsWritten(company, queryLower) == includes(company, queryLower)

\* company => company.toLowerCase().includes(queryLower)
Matches(company, queryLower) == includes(toLowerCase(company), queryLower)

\* The catch of searchCompanies, once fetchAllCompanies has resolved.
searchFallback(query, limit, lists) ==
  LET allCompanies == SetSpread(lists.nifty50 \o lists.nifty100 \o lists.top200)
      queryLower == toLowerCase(query)
  IN Slice(SelectSeq(allCompanies, LAMBDA company : Matches(company, queryLower)),
           limit)

\* Names of companies, and what is typed into the search box.
NameAB == <<"A", "B">>
NameBA == <<"B", "A">>
NameAa == <<"A", "a">>
NameB == <<"B">>
Queries == {<<>>, <<"a">>, <<"B">>, <<"a", "b">>, <<"A", "b">>, <<"b", "a">>,
            <<"A", "A">>, <<"c">>}

\* Lists fetchAllCompanies may resolve with: empty, with a name that is in
\* another list, with a name twice.
SomeLists == {<<>>, <<NameAB>>, <<NameAB, NameBA>>, <<NameBA, NameAa, NameBA>>,
              <<NameB, NameAB, NameAa>>}

NoSearchLists == [nifty50 |-> <<>>, nifty100 |-> <<>>, top200 |-> <<>>]

SearchInit ==
  search = [pc |-> "idle", query |-> <<>>, limit |-> 0,
            lists |-> NoSearchLists, result |-> <<>>]

\* searchCompanies(query, limit) is called and the request to the backend
\* fails, or its status is not ok: the catch calls fetchAllCompanies.
SearchRequestFails(query, limit) ==
  /\ search.pc = "idle"
  /\ search' = [search EXCEPT !.pc = "fallback", !.query = query,
                              !.limit = limit]
  /\ UNCHANGED otherThanSearch

\* await fetchAllCompanies() resolves with the three lists, and the call
\* returns what it finds in them.
SearchFallback(lists) ==
  /\ search.pc = "fallback"
  /\ search' = [search EXCEPT
       !.pc = "returned",
       !.lists = lists,
       !.result = searchFallback(search.query, search.limit, lists)]
  /\ UNCHANGED otherThanSearch

SearchNext ==
  \/ \E query \in Queries, limit \in 0..MaxLimit :
       SearchRequestFails(query, limit)
  \/ \E n50 \in SomeLists, n100 \in SomeLists, t200 \in SomeLists :
       SearchFallback([nifty50 |-> n50, nifty100 |-> n100, top200 |-> t200])

(***************************************************************************)
(* The portfolio of PortfolioContext and the company picker: CompanyInput   *)
(* with its bucket of companies, and the selections of                      *)
(* CompanySelectionModal. The lists of the tabs are loaded; the search box  *)
(* only hides rows and is left out.                                         *)
(***************************************************************************)
\* useState of streamProgress, and what handleReset and the finally of
\* handleSubmit set it to.
NoProgress == [current |-> 0, total |-> 0, symbol |-> "", results |-> <<>>]

\* useState(null) of analysisResults
NullResults == [isNull |-> TRUE]

\* useState(null) of the portfolio's error, and setError(message): the
\* message is a text and, where there is one in it, a number.
NoHomeError == [isNull |-> TRUE, text |-> "", num |-> 0]
HomeErrorOf(message) == [isNull |-> FALSE, text |-> message.text, num |-> message.num]

\* What the portfolio held when the call in flight was started; nothing when
\* no call is in flight.
NothingBefore == [analysisResults |-> NullResults, submitted |-> FALSE]

HomeInit ==
  /\ home = [companies |-> <<>>, submitted |-> FALSE, loading |-> FALSE,
             analysisResults |-> NullResults, error |-> NoHomeError,
             streamProgress |-> NoProgress]
  /\ hcall = [inflight |-> 0, total |-> 0, completed |-> 0, s |-> NewSession,
              before |-> NothingBefore, outcome |-> "none"]

Tabs == {"nifty50", "nifty100", "top200", "custom"}

\* companyLists, once loaded: a name is in several lists, and one list has a
\* name twice.
companyLists ==
  [nifty50 |-> <<NameAB>>,
   nifty100 |-> <<NameAB, NameBA, NameAB>>,
   top200 |-> <<NameBA, NameB>>,
   custom |-> <<NameB, NameAB>>]

NothingSelected == [tab \in Tabs |-> <<>>]

PickerInit ==
  picker = [isOpen |-> FALSE, activeTab |-> "nifty50",
            selected |-> NothingSelected]

\* onClick={() => setIsModalOpen(true)}
PickerOpens ==
  /\ ~picker.isOpen
  /\ picker' = [picker EXCEPT !.isOpen = TRUE]
  /\ UNCHANGED <<home, hcall>>
  /\ UNCHANGED otherThanHome

\* onClose={() => setIsModalOpen(false)}: the selections stay.
PickerCloses ==
  /\ picker.isOpen
  /\ picker' = [picker EXCEPT !.isOpen = FALSE]
  /\ UNCHANGED <<home, hcall>>
  /\ UNCHANGED otherThanHome

\* onClick={() => setActiveTab(tab)}
SetActiveTab(tab) ==
  /\ picker.isOpen
  /\ picker' = [picker EXCEPT !.activeTab = tab]
  /\ UNCHANGED <<home, hcall>>
  /\ UNCHANGED otherThanHome

\* handleToggleCompany(company), for a row of the active tab
handleToggleCompany(company) ==
  /\ picker.isOpen
  /\ \E i \in DOMAIN companyLists[picker.activeTab] :
       companyLists[picker.activeTab][i] = company
  /\ LET currentSelections == picker.selected[picker.activeTab]
     IN picker' = [picker EXCEPT !.selected[picker.activeTab] =
          IF \E i \in DOMAIN currentSelections : currentSelections[i] = company
          THEN SelectSeq(currentSelections, LAMBDA c : c # company)
          ELSE Append(currentSelections, company)]
  /\ UNCHANGED <<home, hcall>>
  /\ UNCHANGED otherThanHome

\* handleSelectAll
handleSelectAll ==
  /\ picker.isOpen
  /\ picker' = [picker EXCEPT !.selected[picker.activeTab] =
                                 companyLists[picker.activeTab]]
  /\ UNCHANGED <<home, hcall>>
  /\ UNCHANGED otherThanHome

\* handleDeselectAll
handleDeselectAll ==
  /\ picker.isOpen
  /\ picker' = [picker EXCEPT !.selected[picker.activeTab] = <<>>]
  /\ UNCHANGED <<home, hcall>>
  /\ UNCHANGED otherThanHome

\* The selections of all tabs, in the order of the tabs.
allSelections(selected) ==
  selected.nifty50 \o selected.nifty100 \o selected.top200 \o selected.custom

\* The companies passed on, without the filter on existingCompanies.
newCompaniesUnfiltered(selected, existingCompanies) ==
  SetSpread(allSelections(selected))

\* uniqueSelections.filter(c => !existingCompanies.includes(c))
newCompanies(selected, existingCompanies) ==
  SelectSeq(SetSpread(allSelections(selected)),
            LAMBDA c : ~\E i \in DOMAIN existingCompanies :
                           existingCompanies[i] = c)

\* The modal's handleAddCompanies (the Add button is disabled with nothing
\* selected): onAdd(newCompanies), which is CompanyInput's
\* onChange([...companies, ...newCompanies]); the selections are emptied and
\* the modal closes.
handleAddCompanies ==
  /\ picker.isOpen
  /\ allSelections(picker.selected) # <<>>
  /\ LET new == newCompanies(picker.selected, home.companies)
     IN IF new # <<>>
        THEN /\ home' = [home EXCEPT !.companies = home.companies \o new]
             /\ picker' = [picker EXCEPT !.selected = NothingSelected,
                                         !.isOpen = FALSE]
        ELSE UNCHANGED <<home, picker>>
  /\ UNCHANGED hcall
  /\ UNCHANGED otherThanHome

\* handleRemoveCompany(index): onChange(companies.filter((_, i) => i !== index))
handleRemoveCompany(index) ==
  /\ index \in DOMAIN home.companies
  /\ home' = [home EXCEPT !.companies =
       [i \in 1..(Len(home.companies) - 1) |->
          IF i < index THEN home.companies[i] ELSE home.companies[i + 1]]]
  /\ UNCHANGED <<picker, hcall>>
  /\ UNCHANGED otherThanHome

PickerNext ==
  \/ PickerOpens
  \/ PickerCloses
  \/ \E tab \in Tabs : SetActiveTab(tab)
  \/ \E company \in {NameAB, NameBA, NameB} : handleToggleCompany(company)
  \/ handleSelectAll
  \/ handleDeselectAll
  \/ handleAddCompanies
  \/ \E index \in 1..3 : handleRemoveCompany(index)

(***************************************************************************)
(* Home: handleSubmit, the callbacks it hands to analyzePortfolioStream,    *)
(* and handleReset. The call is taken at the level of its decoded events.   *)
(***************************************************************************)
\* A call decodes at most this many events.
MaxHomeEvents == 4

\* disabled={formData.companies.length === 0 || loading}, without `loading`.
SubmitEnabledWhileLoading == home.companies # <<>>

\* The submit button: disabled={formData.companies.length === 0 || loading}
SubmitEnabled == home.companies # <<>> /\ ~home.loading

\* The reset button: {submitted && (<button ... disabled={loading}>)}
ResetEnabled == home.submitted /\ ~home.loading

\* handleSubmit up to its await: setLoading(true); setError(null);
\* setStreamProgress({ current: 0, total: companies.length, ... }); the call
\* of analyzePortfolioStream with the two callbacks.
handleSubmit ==
  /\ SubmitEnabled
  /\ home' = [home EXCEPT
       !.loading = TRUE,
       !.error = NoHomeError,
       !.streamProgress = [NoProgress EXCEPT !.total = Len(home.companies)]]
  /\ hcall' = [inflight |-> hcall.inflight + 1,
               total |-> Len(home.companies),
               completed |-> 0,
               s |-> NewSession,
               before |-> [analysisResults |-> home.analysisResults,
                           submitted |-> home.submitted],
               outcome |-> "none"]
  /\ UNCHANGED picker
  /\ UNCHANGED otherThanHome

\* The events the Job Runner may send next in a call, after its start
\* event: a progress event for any item, the result of one more item (the
\* items in any order), complete, error.
RunnerEvents(c) ==
  {Event("progress", NoItem, current, c.total, "AAA", NullSummary, "") :
     current \in 1..c.total}
  \cup {Event("result", item, c.completed + 1, c.total, "", NullSummary, "") :
          item \in IF c.completed < c.total
                   THEN {ItemA, ItemB} \ {c.s.results[i] : i \in DOMAIN c.s.results}
                   ELSE {}}
  \cup {Event("complete", NoItem, 0, 0, "", TheSummary, ""),
        Event("error", NoItem, 0, 0, "", NullSummary, "boom")}

\* The try block of the read loop for one parsed event: it is logged,
\* switched on, and what a case throws is caught and logged.
Dispatch(s, event) ==
  LET logged == [s EXCEPT !.events = Append(@, event.type)]
      r == SwitchEvent(logged, event)
  IN IF r.thrown THEN [r.s EXCEPT !.caught = Append(@, r.error)] ELSE r.s

\* onProgress: setStreamProgress(prev => ({ ...prev, current, total, symbol }))
HomeOnProgress(prev, call) ==
  [prev EXCEPT !.current = call.n, !.total = call.total, !.symbol = call.symbol]

\* An onResult that keeps the new result only.
HomeOnResultLastOnly(prev, call) ==
  [prev EXCEPT !.results = <<call.item>>, !.current = call.n,
               !.total = call.total]

\* onResult: setStreamProgress(prev => ({ ...prev, results: [...prev.results,
\* result], current: completed, total }))
HomeOnResult(prev, call) ==
  [prev EXCEPT !.results = Append(@, call.item), !.current = call.n,
               !.total = call.total]

\* The callbacks of Home, invoked in order.
RECURSIVE Invoked(_, _)
Invoked(prev, invocations) ==
  IF invocations = <<>> THEN prev
  ELSE LET call == Head(invocations)
       IN Invoked(IF call.cb = "onProgress"
                  THEN HomeOnProgress(prev, call)
                  ELSE HomeOnResult(prev, call),
                  Tail(invocations))

\* The call decodes one more event of its stream and invokes the callback
\* of Home that the event asks for.
HomeStreamEvent(event) ==
  /\ hcall.inflight > 0
  /\ Len(hcall.s.events) < MaxHomeEvents
  /\ event \in RunnerEvents(hcall)
  /\ LET after == Dispatch(hcall.s, event)
     IN /\ hcall' = [hcall EXCEPT
             !.s = after,
             !.completed = IF event.type = "result" THEN event.n ELSE @]
        /\ home' = [home EXCEPT !.streamProgress =
             Invoked(@, SubSeq(after.calls, Len(hcall.s.calls) + 1,
                               Len(after.calls)))]
  /\ UNCHANGED picker
  /\ UNCHANGED otherThanHome

\* The finally of handleSubmit without its second line.
FinallyKeepsProgress(h) == [h EXCEPT !.loading = FALSE]

\* finally { setLoading(false); setStreamProgress({ current: 0, ... }) }
Finally(h) == [h EXCEPT !.loading = FALSE, !.streamProgress = NoProgress]

\* The stream ends and the call returns { ...summary, results, success }:
\* setAnalysisResults(results); setSubmitted(true); the finally.
HomeCallResolves ==
  /\ hcall.inflight > 0
  /\ LET returned == ReturnValue(hcall.s.summary, hcall.s.results)
     IN /\ home' = Finally([home EXCEPT !.analysisResults = returned,
                                        !.submitted = TRUE])
        /\ hcall' = [inflight |-> hcall.inflight - 1, total |-> 0,
                     completed |-> 0, s |-> NewSession,
                     before |-> NothingBefore, outcome |-> "resolved"]
  /\ UNCHANGED picker
  /\ UNCHANGED otherThanHome

\* setError(err.message), whatever the message.
ErrorMessageAsIs(err) == err

\* err.message || 'Failed to analyze portfolio. Please try again.'
ErrorMessage(err) ==
  IF err.text # "" THEN err
  ELSE Msg("Failed to analyze portfolio. Please try again.", 0)

\* What the call may reject with: the Error of a response that is not ok,
\* the error of fetch or of a read, an Error without a message.
Rejections ==
  {StreamHttpError(status, body) : status \in ErrorStatuses, body \in ErrorBodies}
  \cup {Msg("TypeError: Failed to fetch", 0), Msg("", 0)}

\* The call rejects, before the stream or in the middle of it: the catch of
\* handleSubmit, setError(...), and the finally.
HomeCallRejects(err) ==
  /\ hcall.inflight > 0
  /\ home' = Finally([home EXCEPT !.error = HomeErrorOf(ErrorMessage(err))])
  /\ hcall' = [inflight |-> hcall.inflight - 1, total |-> 0, completed |-> 0,
               s |-> NewSession, before |-> NothingBefore,
               outcome |-> "rejected"]
  /\ UNCHANGED picker
  /\ UNCHANGED otherThanHome

\* handleReset, by the Reset button
handleReset ==
  /\ ResetEnabled
  /\ home' = [home EXCEPT
       !.companies = <<>>,
       !.submitted = FALSE,
       !.analysisResults = NullResults,
       !.error = NoHomeError,
       !.streamProgress = NoProgress]
  /\ UNCHANGED <<picker, hcall>>
  /\ UNCHANGED otherThanHome

\* The form with two companies in the bucket, picked through the modal.
HomeStart ==
  /\ StreamInit /\ AnalyzeInit /\ CacheInit /\ ConcInit
  /\ AuthInit /\ SearchInit /\ PickerInit
  /\ home = [companies |-> <<NameAB, NameBA>>, submitted |-> FALSE,
             loading |-> FALSE, analysisResults |-> NullResults,
             error |-> NoHomeError, streamProgress |-> NoProgress]
  /\ hcall = [inflight |-> 0, total |-> 0, completed |-> 0, s |-> NewSession,
              before |-> NothingBefore, outcome |-> "none"]

HomeNext ==
  \/ handleSubmit
  \/ \E event \in RunnerEvents(hcall) : HomeStreamEvent(event)
  \/ HomeCallResolves
  \/ \E err \in Rejections : HomeCallRejects(err)
  \/ handleReset
  \/ \E index \in 1..2 : handleRemoveCompany(index)

(***************************************************************************)
(* Specifications.                                                          *)
(***************************************************************************)
Init ==
  /\ StreamInit /\ AnalyzeInit /\ CacheInit /\ ConcInit
  /\ AuthInit /\ SearchInit /\ HomeInit /\ PickerInit

\* One streaming call and its Job Runner.
Next == StreamNext
Spec == Init /\ [][Next]_vars

\* reader.read() hands over some of the bytes that are waiting: what a
\* ReadChunk step does to pos.
ReadAdvances ==
  /\ pc = "reading"
  /\ transport # "failed"
  /\ pos' \in (pos + 1)..Len(sent)

\* The same, with the scheduling of the event loop: a read whose bytes, end or
\* failure is at hand settles, and the continuation of the await runs. (Only a
\* ReadChunk step changes pos, so the last condition is weak fairness of the
\* ReadChunk steps.)
LiveSpec ==
  Spec /\ WF_vars(ReadDone) /\ WF_vars(ReadRejects) /\ WF_pos(ReadAdvances)

\* One non-streaming call, its timer and the clock.
AnalyzeSpec == Init /\ [][AnalyzeNext]_vars

\* The company lists used through the functions of the module.
CacheSpec == Init /\ [][CacheNext]_vars

\* AuthProvider, its requests and the backend's session.
AuthSpec == Init /\ [][AuthNext]_vars

\* The bucket of companies and the modal that fills it.
PickerSpec == Init /\ [][PickerNext]_vars

\* Home with companies in the bucket: submits, the events of the calls,
\* resets, and removals from the bucket.
HomeSpec == HomeStart /\ [][HomeNext]_vars

\* One searchCompanies call whose request to the backend fails.
SearchSpec == Init /\ [][SearchNext]_vars

\* The company lists used through the modal.
ModalSpec == Init /\ [][ModalNext]_vars

\* Two analysis calls in flight at the same time.
ConcSpec == Init /\ [][ConcNext]_vars

(***************************************************************************)
(* What the Job Runner wrote, read as the wire contract reads it: the       *)
(* yardstick of the properties below.                                       *)
(***************************************************************************)
Range(seq) == {seq[i] : i \in 1..Len(seq)}
Settled == pc \in {"resolved", "rejected"}

\* The pieces whose bytes reader.read() has handed over in full.
DeliveredCount ==
  Cardinality({k \in 1..Len(emitted) : Len(Flatten(SubSeq(emitted, 1, k))) <= pos})
Delivered == SubSeq(emitted, 1, DeliveredCount)

\* Every piece written so far is a delimited record or a stray line feed: no
\* unterminated record runs into the record written after it.
NoFragment == "frag" \notin Range(emitted)

\* The result items, the callback invocations and the event types that a
\* sequence of records stands for, in the order of the records.
RECURSIVE ItemsOf(_)
ItemsOf(log) ==
  IF log = <<>> THEN <<>>
  ELSE (CASE Head(log) = "resultA" -> <<ItemA>>
          [] Head(log) = "resultB" -> <<ItemB>>
          [] OTHER -> <<>>) \o ItemsOf(Tail(log))

RECURSIVE InvocationsOf(_)
InvocationsOf(log) ==
  IF log = <<>> THEN <<>>
  ELSE (CASE Head(log) = "progress" -> <<OnProgress(1, 2, "AAA")>>
          [] Head(log) = "resultA" -> <<OnResult(ItemA, 1, 2)>>
          [] Head(log) = "resultB" -> <<OnResult(ItemB, 2, 2)>>
          [] OTHER -> <<>>) \o InvocationsOf(Tail(log))

\* The records of a log that are not of the given kind.
RECURSIVE Without(_, _)
Without(log, kind) ==
  IF log = <<>> THEN <<>>
  ELSE (IF Head(log) = kind THEN <<>> ELSE <<Head(log)>>)
       \o Without(Tail(log), kind)

\* An `error` event has been decoded: its record was handed over in full.
ErrorDecoded ==
  \E i \in 1..DeliveredCount :
    emitted[i] = "error" /\ "frag" \notin Range(SubSeq(emitted, 1, i))

\* A `complete` event has been decoded.
CompleteDecoded ==
  \E i \in 1..DeliveredCount :
    emitted[i] = "complete" /\ "frag" \notin Range(SubSeq(emitted, 1, i))

\* The stream is a well-formed event sequence ending in `complete`: start,
\* progress and result records, then one complete record, then the end.
WellFormedComplete ==
  /\ Len(emitted) >= 1
  /\ emitted[Len(emitted)] = "complete"
  /\ \A i \in 1..(Len(emitted) - 1) :
       emitted[i] \in {"start", "progress", "resultA", "resultB"}

(***************************************************************************)
(* Properties of analyzePortfolioStream.                                    *)
(***************************************************************************)
\* C1: once an `error` event has been decoded the call is rejected with an
\* Error carrying the event's message, however many results came before; it
\* does not go on, and it does not resolve.
ErrorEventRejects ==
  ErrorDecoded => (pc = "rejected" /\ reason = Msg("boom", 0))

\* C2: a call whose byte stream has ended with neither a `complete` nor an
\* `error` event decoded is rejected with an IncompleteStream error; it does
\* not resolve with the results gathered so far.
EndWithoutCompleteRejects ==
  (Settled /\ transport = "closed" /\ NoFragment
     /\ ~CompleteDecoded /\ ~ErrorDecoded)
  => (pc = "rejected" /\ reason.text = "IncompleteStream")

\* C3: for a well-formed event sequence ending in `complete`, read to its
\* end, the call resolves with the fields of the summary of the complete
\* event and with `results` the items of the result records in arrival order.
CompleteResolvesWithSummaryAndResults ==
  (WellFormedComplete /\ transport = "closed" /\ pc # "reading")
  => /\ pc = "resolved"
     /\ value.results = ItemsOf(emitted)
     /\ \A f \in DOMAIN TheSummary : value[f] = TheSummary[f]

\* C3 witness: a well-formed stream has resolved with two results, the one
\* of the second item having arrived first.
ResolvedTwoResultsOutOfIdOrder ==
  /\ pc = "resolved"
  /\ WellFormedComplete
  /\ value.results = <<ItemB, ItemA>>

\* C4: however the bytes handed over so far were split into chunks, the
\* events dispatched, the callbacks invoked, results, summary and the buffer
\* are those of handing the same bytes over as one chunk.
ChunkingIndependent ==
  pc \in {"reading", "resolved"}
  => LET one == ProcessChunk(NewDecoder, SubSeq(sent, 1, pos))
     IN /\ one.s = [results |-> results, summary |-> summary,
                    events |-> events, calls |-> calls, caught |-> caught]
        /\ one.buffer = buffer
        /\ one.pending = pending

\* C4 witness: after an event was dispatched, a chunk has ended between the
\* two line feeds of the delimiter of a later record, inside whose payload an
\* earlier chunk boundary had split a character.
ChunkEndedInsideDelimiter ==
  /\ pc = "reading"
  /\ Len(events) >= 1
  /\ buffer = <<D, "resultB", NL>>

\* C5: the callback invocations made so far are exactly those of the progress
\* and result events decoded so far, one each, with the event's fields, in
\* the order of the events.
CallbacksFollowEvents ==
  (pc # "fetching" /\ NoFragment) => calls = InvocationsOf(Delivered)

\* C5 witness: onResult, onProgress and onResult again have been invoked, in
\* the order their events arrived.
ThreeCallbacksInOrder ==
  calls = <<OnResult(ItemB, 2, 2), OnProgress(1, 2, "AAA"), OnResult(ItemA, 1, 2)>>

\* C6: a delimited record whose payload is not JSON changes nothing but the
\* diagnostic log: results, summary, the events dispatched and the callbacks
\* invoked are those of the same stream without that record, and the call
\* does not fail on it.
MalformedRecordDropped ==
  (pc \in {"reading", "resolved"} /\ NoFragment)
  => LET clean == ProcessChunk(NewDecoder, Flatten(Without(Delivered, "badjson"))).s
     IN /\ results = clean.results
        /\ summary = clean.summary
        /\ events = clean.events
        /\ calls = clean.calls
        /\ (transport = "closed" /\ pos = Len(sent) /\ pc = "resolved"
              => value = ReturnValue(clean.summary, clean.results))

\* C6 witness: a malformed record was dropped between two results, and the
\* call resolved with both.
MalformedBetweenResults ==
  /\ emitted = <<"resultA", "badjson", "resultB">>
  /\ caught = <<"SyntaxError">>
  /\ pc = "resolved"
  /\ value.results = <<ItemA, ItemB>>

\* C7: a result event whose item has status "error" is appended to results
\* and passed to onResult like any other, and does not fail the call: when a
\* `complete` follows and the stream ends, the call resolves with the item
\* among its results.
ItemErrorIsAResult ==
  (pc # "fetching" /\ NoFragment)
  => /\ Len(SelectSeq(results, LAMBDA r : r = ItemB))
          = Len(SelectSeq(Delivered, LAMBDA k : k = "resultB"))
     /\ Len(SelectSeq(calls, LAMBDA c : c = OnResult(ItemB, 2, 2)))
          = Len(SelectSeq(Delivered, LAMBDA k : k = "resultB"))
     /\ ("resultB" \in Range(emitted) /\ ~ErrorDecoded
           /\ emitted[Len(emitted)] = "complete"
           /\ transport = "closed" /\ pc # "reading")
        => (pc = "resolved" /\ ItemB \in Range(value.results))

\* C7 witness: the call resolved after a failed item and `complete`.
ResolvedWithFailedItem ==
  /\ pc = "resolved"
  /\ emitted = <<"resultA", "resultB", "complete">>
  /\ value.results = <<ItemA, ItemB>>
  /\ value.failed = 1

\* C9: a response with a non-success status rejects the call with the
\* server's detail text or the HTTP status, with no event decoded and no
\* callback invoked.
HttpErrorCarriesDetailOrStatus ==
  (response # NoResponse /\ ~response.ok)
  => /\ pc = "rejected"
     /\ reason \in {Msg(DetailText, 0), Msg("HTTP", response.status)}
     /\ events = <<>>
     /\ calls = <<>>

\* C10: once the byte stream has ended or failed, the call settles.
EndedStreamSettles == (transport \in {"closed", "failed"}) ~> Settled

\* C10 witness: the call was rejected after the connection was severed in the
\* middle of a record, results having been gathered.
RejectedAfterSevered ==
  /\ pc = "rejected"
  /\ transport = "failed"
  /\ Len(results) >= 1
  /\ buffer # <<>>

\* The records up to and including the first of the given kind.
UpTo(kind) ==
  SubSeq(emitted, 1,
         CHOOSE i \in 1..Len(emitted) :
           emitted[i] = kind /\ \A j \in 1..(i - 1) : emitted[j] # kind)

\* The number of records of a log that are in the given set of kinds.
CountOf(log, kinds) == Len(SelectSeq(log, LAMBDA k : k \in kinds))

\* C17: once an `error` event has been decoded nothing that follows it in the
\* stream is consumed: the callbacks invoked and results stay those of the
\* events up to the error.
NothingConsumedAfterError ==
  (ErrorDecoded /\ NoFragment)
  => /\ calls = InvocationsOf(UpTo("error"))
     /\ results = ItemsOf(UpTo("error"))

\* C18: once a `complete` event has been decoded the session is over: the
\* callbacks invoked and results stay those of the events up to it, and the
\* summary stays the one it carried.
SessionOverAfterComplete ==
  (CompleteDecoded /\ NoFragment)
  => /\ calls = InvocationsOf(UpTo("complete"))
     /\ results = ItemsOf(UpTo("complete"))
     /\ summary = TheSummary

\* C19: a step of the call in which only `start` and `progress` events are
\* dispatched leaves results and summary as they were, and one in which only
\* `start` events are dispatched invokes no callback.
StartAndProgressLeaveResults ==
  [][LET dispatched == SubSeq(events', Len(events) + 1, Len(events'))
     IN /\ Range(dispatched) \subseteq {"start", "progress"}
           => (results' = results /\ summary' = summary)
        /\ Range(dispatched) \subseteq {"start"} => calls' = calls]_vars

\* C19 witness: a `start` and a `progress` event were decoded after
\* a result, which is still the only one.
StartAfterResult ==
  /\ emitted = <<"resultA", "start", "progress">>
  /\ pos = Len(sent)
  /\ events = <<"result", "start", "progress">>
  /\ results = <<ItemA>>
  /\ calls = <<OnResult(ItemA, 1, 2), OnProgress(1, 2, "AAA")>>

\* C20: when the byte stream ends on a record that no blank line terminates,
\* the call resolves as if that record had not been written: it is not parsed
\* (nothing is logged for it), no callback is invoked for it and it is not
\* among the results, although its payload is a whole JSON document.
TrailingFragmentDiscarded ==
  (pc = "resolved" /\ Len(emitted) >= 1 /\ emitted[Len(emitted)] = "frag"
     /\ "frag" \notin Range(Front(emitted)))
  => /\ value.results = ItemsOf(Front(emitted))
     /\ results = ItemsOf(Front(emitted))
     /\ calls = InvocationsOf(Front(emitted))
     /\ Len(events) = CountOf(Front(emitted), JsonDocs)
     /\ Len(caught) = CountOf(Front(emitted), {"badjson", "error"})

\* C20 witness: the stream ended on an unterminated result record that came
\* after a progress and a result record; the call resolved with one result.
ResolvedWithFragmentInBuffer ==
  /\ pc = "resolved"
  /\ emitted = <<"progress", "resultB", "frag">>
  /\ buffer = <<D, "resultA">>
  /\ value.results = <<ItemB>>

(***************************************************************************)
(* Properties of the company lists.                                         *)
(***************************************************************************)
\* A step in which fetchAllCompanies (fetchAllNSECompanies) is called: only a
\* call changes the record of a call that is not in flight.
FacCalled == ~FacInFlight /\ fac' # fac
NseCalled == ~NseInFlight /\ nse' # nse

\* Every list of the cache and its timestamp are empty.
CacheIsEmpty(c) ==
  /\ c.nifty50.isNull /\ c.nifty100.isNull /\ c.top200.isNull
  /\ c.nifty200.isNull /\ c.allNSE.isNull
  /\ c.timestamp = 0

\* C12: a fetchAllCompanies call made less than an hour after a
\* fetchAllCompanies call wrote the index lists into the cache, with no
\* clearCache in between, returns the cached lists and issues no request.
CachedWithinTheHour ==
  [][(FacCalled /\ listsSince # 0 /\ dateNow - listsSince < CACHE_DURATION)
     => /\ fac'.pc = "resolved"
        /\ ~fac'.network
        /\ fac'.value = ListsOf(cache)
        /\ cache' = cache]_vars

\* C12 witness: half an hour after the lists were fetched a call returned
\* them without a request.
HitHalfAnHourLater ==
  /\ fac.pc = "resolved"
  /\ ~fac.network
  /\ fac.value.nifty50 = List(<<"nifty50">>)
  /\ cache.timestamp = listsSince
  /\ dateNow - listsSince = ClockStepMs

\* C13: a fetchAllCompanies call made more than an hour after the index lists
\* held in the cache were fetched does not return them: it requests fresh
\* lists.
StaleListsAreRefetched ==
  [][(FacCalled /\ listsSince # 0 /\ dateNow - listsSince > CACHE_DURATION)
     => (fac'.network /\ fac'.pc = "all")]_vars

\* C14, as claimed: clearCache leaves every list and the timestamp empty, and
\* the first call of each function after it issues a request.
ClearForcesRefetch ==
  [][/\ (afterClear' # afterClear /\ afterClear'.fac # "no"
           /\ afterClear'.nse # "no") => CacheIsEmpty(cache')
     /\ (FacCalled /\ afterClear.fac # "no") => fac'.network
     /\ (NseCalled /\ afterClear.nse # "no") => nse'.network]_vars

\* C14, amended: clearCache leaves every list and the timestamp empty, and
\* the first call of a function after it issues a request if no call of that
\* function was in flight when clearCache ran.
ClearForcesRefetchWhenQuiet ==
  [][/\ (afterClear' # afterClear /\ afterClear'.fac # "no"
           /\ afterClear'.nse # "no") => CacheIsEmpty(cache')
     /\ (FacCalled /\ afterClear.fac = "quiet") => fac'.network
     /\ (NseCalled /\ afterClear.nse = "quiet") => nse'.network]_vars

\* C14 witness: with the NSE list cached and no call in flight clearCache
\* emptied the cache, and the fetchAllCompanies call made after it issued a
\* request.
RefetchedAfterClear ==
  /\ afterClear = [fac |-> "no", nse |-> "quiet"]
  /\ nse.pc = "resolved" /\ nse.value = List(<<"nse">>)
  /\ CacheIsEmpty(cache)
  /\ fac.pc = "all" /\ fac.network

ModalShowsFallbackLists ==
  (~modal.awaiting /\ nse.pc = "rejected" /\ fac.pc = "resolved"
     /\ fac.failedAll)
  => /\ ~modal.loading
     /\ modal.companyLists.nifty50 # <<>>
     /\ modal.companyLists.nifty100 # <<>>
     /\ modal.companyLists.top200 # <<>>

(***************************************************************************)
(* Properties of calls in flight at the same time.                          *)
(***************************************************************************)
\* C11: whatever the interleaving of two calls in flight, the buffer, results
\* and summary of each streaming call are those its own stream's bytes give,
\* and each call settles with the value it gives when it runs alone.
CallsShareNoSessionState ==
  /\ \A c \in Calls :
       LET alone == ProcessChunk(NewDecoder,
                      SubSeq(Flatten(frames[c].emitted), 1, frames[c].pos))
       IN /\ frames[c].pc \in {"reading", "resolved"} => cells[c] = alone
          /\ frames[c].pc = "resolved"
             => frames[c].value = ReturnValue(alone.s.summary, alone.s.results)
  /\ apc = "resolved"
     => avalue = [results |-> <<ItemA, ItemB>>, success |-> TRUE] @@ TheSummary

\* C11 witness: both streaming calls are in the middle of their streams, the
\* first holding a result and part of a record, the second nothing but part
\* of a record that the first has not received.
BothCallsMidStream ==
  /\ frames[1].pc = "reading" /\ frames[2].pc = "reading"
  /\ cells[1].s.results = <<ItemB>> /\ cells[1].buffer = <<D, "complete">>
  /\ cells[2].s.results = <<>> /\ cells[2].buffer = <<D, "resultB", NL>>

(***************************************************************************)
(* Properties of analyzePortfolio.                                          *)
(***************************************************************************)
ASettled == apc \in {"resolved", "rejected"}

\* C8: a call that was still unfinished when its budget elapsed, whether it
\* was waiting for the response or reading its body, was aborted and is
\* rejected with the timeout error, whose message names the budget.
BudgetBoundsWholeCall ==
  (ASettled /\ (settledAt - startedAt) * TickMs > timeoutMs)
  => /\ apc = "rejected"
     /\ aborted
     /\ areason.text = "Analysis timeout: Request took longer than N minutes"
     /\ areason.num * 60 * 1000 = timeoutMs

\* C30: the timer armed by the call is cancelled on every path by which the
\* call settles: a settled call has no timer left pending.
TimerCancelledOnEverySettle == ASettled => timer # "armed"

(***************************************************************************)
(* Properties of AuthProvider.                                              *)
(***************************************************************************)
\* C21: once a logout has completed, isAuthenticated stays false and user
\* stays null until a login, or a status check, reports a session; a status
\* check that was in flight when logout was called, and that the backend
\* had answered before it cleared the session, does not count.
LogoutSticksUntilNewReport ==
  loggedOut => (~auth.isAuthenticated /\ auth.user = NullUser)

\* C29: isAuthenticated is true if and only if user is not null.
AuthenticatedIffUser == auth.isAuthenticated <=> ~auth.user.isNull

\* C29 witness: after a login was refused, a status check has shown the user
\* of a session, and a logout is on its way back.
SignedInAfterRefusedLogin ==
  /\ auth.isAuthenticated
  /\ auth.user = UserOf(StatusOf(TRUE))
  /\ auth.error = ErrorOf("Login failed")
  /\ ~auth.loading
  /\ kite.logout = "cleared"

(***************************************************************************)
(* Properties of searchCompanies.                                           *)
(***************************************************************************)
\* The name contains the query, whatever the case of their letters.
ContainsIgnoringCase(name, query) ==
  \E at \in 0..(Len(name) - Len(query)) :
    \A j \in 1..Len(query) : LowerChar(name[at + j]) = LowerChar(query[j])

\* The three lists of the call, one after the other, and the place where a
\* name comes first in them.
SearchedLists == search.lists.nifty50 \o search.lists.nifty100 \o search.lists.top200
FirstAt(name) == CHOOSE i \in DOMAIN SearchedLists :
                   /\ SearchedLists[i] = name
                   /\ \A j \in 1..(i - 1) : SearchedLists[j] # name

\* C28: when the request to the backend has failed, the call returns the
\* first `limit` distinct names of the three lists, in list order, that
\* contain the query whatever the case: no more than `limit`, none twice,
\* none that does not match, and none skipped for a later one.
FallbackSearchFirstMatches ==
  search.pc = "returned"
  => LET found == search.result
         matching == {name \in Range(SearchedLists) :
                        ContainsIgnoringCase(name, search.query)}
     IN /\ Len(found) <= search.limit
        /\ Len(found) = search.limit \/ Len(found) = Cardinality(matching)
        /\ Range(found) \subseteq matching
        /\ \A i, j \in DOMAIN found : i < j =>
             (found[i] # found[j] /\ FirstAt(found[i]) < FirstAt(found[j]))
        /\ \A name \in matching \ Range(found) :
             \A i \in DOMAIN found : FirstAt(found[i]) < FirstAt(name)

\* C28 witness: of three matching names, one of them in two lists and one
\* written with a small letter, the search for "a" with limit 2 returned the
\* first two.
FirstTwoOfThreeMatches ==
  /\ search.pc = "returned"
  /\ search.query = <<"a">>
  /\ search.limit = 2
  /\ search.lists = [nifty50 |-> <<NameAB, NameBA>>,
                     nifty100 |-> <<NameBA, NameAa, NameBA>>,
                     top200 |-> <<NameB, NameAB, NameAa>>]
  /\ search.result = <<NameAB, NameBA>>

(***************************************************************************)
(* Properties of the portfolio and of Home.                                 *)
(***************************************************************************)
\* No value is twice in the list.
Distinct(list) == \A i, j \in DOMAIN list : list[i] = list[j] => i = j

\* C23: whatever is added through the modal and removed from the bucket, no
\* symbol is twice in the portfolio's companies, and what an addition
\* appends is not empty, has no symbol twice and none that was in the list.
BucketHasNoDuplicate ==
  [][/\ Distinct(home'.companies)
     /\ Len(home'.companies) > Len(home.companies)
        => LET added == SubSeq(home'.companies, Len(home.companies) + 1,
                               Len(home'.companies))
           IN /\ home'.companies = home.companies \o added
              /\ Distinct(added)
              /\ Range(added) \cap Range(home.companies) = {}]_vars

\* C23 witness: additions have left two companies in the bucket, and in the
\* modal, open again, all of a tab is selected: one of the two in the bucket,
\* and another name twice.
SelectionsHoldAnExistingCompany ==
  /\ home.companies = <<NameB, NameBA>>
  /\ picker.isOpen
  /\ picker.selected = [NothingSelected EXCEPT
                          !.nifty100 = <<NameAB, NameBA, NameAB>>]

\* A step in which the call in flight settles.
CallSettles == hcall'.inflight < hcall.inflight

\* C22: during one call the progress shown, streamProgress.current, never
\* decreases and never exceeds streamProgress.total.
ProgressShownNeverGoesBack ==
  [][(hcall.inflight = 1 /\ hcall'.inflight = 1)
     => /\ home'.streamProgress.current >= home.streamProgress.current
        /\ home'.streamProgress.current <= home'.streamProgress.total]_vars

\* C24: loading is true for as long as the call is in flight, and once it
\* has settled, either way, loading is false and streamProgress is reset.
LoadingWhileInFlight ==
  IF hcall.inflight > 0
  THEN home.loading
  ELSE ~home.loading /\ home.streamProgress = NoProgress

\* C24 witness: a call has rejected after an earlier one had resolved.
RejectedAfterAnEarlierSuccess ==
  /\ hcall.inflight = 0
  /\ hcall.outcome = "rejected"
  /\ home.submitted
  /\ home.error = HomeErrorOf(Msg("HTTP", 500))
  /\ ~home.loading
  /\ home.streamProgress = NoProgress

\* C25: when the call rejects, error is set to a message that is not empty
\* and analysisResults and submitted are what they were before the submit;
\* when it resolves, analysisResults is the value it resolved with, submitted
\* is true and error is null.
SettledCallSetsThePortfolio ==
  [][CallSettles
     => IF hcall'.outcome = "rejected"
        THEN /\ ~home'.error.isNull
             /\ home'.error.text # ""
             /\ home'.analysisResults = hcall.before.analysisResults
             /\ home'.submitted = hcall.before.submitted
        ELSE /\ home'.analysisResults
                  = ReturnValue(hcall.s.summary, hcall.s.results)
             /\ home'.submitted
             /\ home'.error = NoHomeError]_vars

\* C25 witness: a call has rejected with an Error without a message, and the
\* results of the earlier call, two items and the summary, are still there.
RejectedWithoutMessageKeepsResults ==
  /\ hcall.outcome = "rejected"
  /\ home.error = HomeErrorOf(Msg("Failed to analyze portfolio. Please try again.", 0))
  /\ home.submitted
  /\ home.analysisResults = ReturnValue(TheSummary, <<ItemB, ItemA>>)

\* C26: while the call is in flight, streamProgress.results is the sequence
\* of results the call has gathered, and as long as the number of onResult
\* invocations.
ShownResultsAreTheGathered ==
  hcall.inflight > 0
  => /\ home.streamProgress.results = hcall.s.results
     /\ Len(home.streamProgress.results)
          = Len(SelectSeq(hcall.s.calls, LAMBDA c : c.cb = "onResult"))

\* C26 witness: two results have arrived, the second item's first, and a
\* progress event after them.
TwoResultsShownThenProgress ==
  /\ hcall.inflight = 1
  /\ hcall.s.events = <<"result", "result", "progress">>
  /\ home.streamProgress.results = <<ItemB, ItemA>>
  /\ home.streamProgress.current = 1

\* C27: a call is started only when none is in flight, loading is false and
\* companies is not empty; no two calls are in flight; and the portfolio is
\* not reset (submitted does not go back to false) while loading is true.
OneCallAtATimeNeverEmpty ==
  [][/\ hcall'.inflight > hcall.inflight
        => (hcall.inflight = 0 /\ ~home.loading /\ home.companies # <<>>)
     /\ hcall'.inflight <= 1
     /\ (home.loading /\ home.submitted) => home'.submitted]_vars

\* C27 witness: a second call is in flight, the results of the first are
\* shown, and the bucket was emptied after the submit.
InFlightWithEmptiedBucket ==
  /\ hcall.inflight = 1
  /\ home.loading
  /\ home.submitted
  /\ home.companies = <<>>
  /\ hcall.total = 2

====
